---- MODULE Spec2Model ----
(***************************************************************************)
(* melblkidx: a block indexer that pulls blocks from a node, derives coin  *)
(* creations and spends, commits them per height in one store transaction, *)
(* and answers coin queries and historical balances from the store.        *)
(*                                                                         *)
(* Sources: src/src/lib.rs (Indexer, indexer_loop, indexer_loop_once),     *)
(*          src/src/coinquery.rs (CoinQuery), src/src/balance.rs           *)
(*          (BalanceTracker).                                              *)
(***************************************************************************)
EXTENDS Integers, Sequences, FiniteSets, TLC

(***************************************************************************)
(* Bounds of the model.                                                    *)
(***************************************************************************)
\* The node's tip never exceeds this height (heights 0..MaxTip).
MaxTip == 2
\* Heights probed through balance_at are 0..MaxProbe.
MaxProbe == 3
\* Width of a block height in the model: u64 scaled down to HeightBits bits.
HeightBits == 4
\* Width of a coin value in the model: u128/i128 scaled down to ValueBits bits.
ValueBits == 6
\* Width of an output index in the model: u8 scaled down to IndexBits bits.
IndexBits == 2
\* The chains of melswap blocks have heights 0..MaxSwapTip.
MaxSwapTip == 1
\* The chains served beside callers of a tracker have heights 0..MaxRaceTip.
MaxRaceTip == 1

(***************************************************************************)
(* Values.                                                                 *)
(***************************************************************************)
\* SQL NULL in a nullable column (lib.rs:266 inserts NULL, NULL, NULL).
NULL == -1

\* u64::MAX, the height of an absent cache neighbour (balance.rs:76, :84).
U64_MAX == 2^HeightBits - 1

\* 2^128: CoinValue wraps a u128, and `diff as u128` reduces modulo it.
U128_MOD == 2^ValueBits

\* 2^8: an output index is a u8.
U8_MOD == 2^IndexBits

\* CoinID::new(txhash, index)
CoinID(txhash, index) == [txhash |-> txhash, index |-> index]

\* CoinID::proposer_reward(height): a coin id of its own per height.
ProposerReward(height) == CoinID(100 + height, 0)

\* CoinData, reduced to the columns the queries of this model filter on.
CoinData(value, denom) == [value |-> value, denom |-> denom]

\* Option<CoinDataHeight> returned by Snapshot::get_coin: None.
NoCoin == [value |-> NULL, denom |-> "none"]

Tx(hash, kind, inputs, outputs) ==
    [hash |-> hash, kind |-> kind, inputs |-> inputs, outputs |-> outputs]

(***************************************************************************)
(* The blocks the node may serve.  Block validity is not checked by the    *)
(* indexer, so the menu also holds blocks whose inputs name coins that do  *)
(* not exist yet or were spent before.                                     *)
(*   reward   : the snapshot's answer for the proposer reward coin         *)
(*   snap     : the snapshot's answers to get_coin for melswap outputs     *)
(*   stakers  : the snapshot's answer to get_stakers_raw (some/none, docs) *)
(***************************************************************************)
BlkReward ==
    [hash |-> 10, stakes_hash |-> 1,
     transactions |-> << >>,
     reward |-> CoinData(3, "MEL"),
     snap |-> {},
     stakers |-> [some |-> TRUE, docs |-> {51}]]

BlkPay ==
    [hash |-> 11, stakes_hash |-> 1,
     transactions |->
        << Tx(1, "Normal", << ProposerReward(0) >>,
              << CoinData(2, "MEL"), CoinData(1, "SYM") >>) >>,
     reward |-> NoCoin,
     snap |-> {},
     stakers |-> [some |-> TRUE, docs |-> {51}]]

\* Tx 3 spends an output of tx 2 of the same block.
BlkChain ==
    [hash |-> 12, stakes_hash |-> 2,
     transactions |->
        << Tx(2, "Normal", << CoinID(1, 0) >>, << CoinData(2, "MEL") >>),
           Tx(3, "Normal", << CoinID(2, 0) >>, << CoinData(1, "MEL") >>) >>,
     reward |-> CoinData(1, "MEL"),
     snap |-> {},
     stakers |-> [some |-> TRUE, docs |-> {51, 52}]]

\* A swap whose first output the ledger transmuted from MEL to SYM.
BlkSwap ==
    [hash |-> 13, stakes_hash |-> 2,
     transactions |->
        << Tx(4, "Swap", << CoinID(1, 1), CoinID(1, 0) >>,
              << CoinData(1, "MEL") >>) >>,
     reward |-> NoCoin,
     snap |-> {[id |-> CoinID(4, 0), data |-> CoinData(2, "SYM")]},
     stakers |-> [some |-> FALSE, docs |-> {}]]

\* A swap whose first output is spent by tx 6 within the same block: the
\* snapshot pinned at the block's height no longer holds the coin.
BlkSwapSpent ==
    [hash |-> 14, stakes_hash |-> 3,
     transactions |->
        << Tx(5, "Swap", << CoinID(1, 1) >>, << CoinData(1, "MEL") >>),
           Tx(6, "Normal", << CoinID(5, 0) >>, << CoinData(1, "SYM") >>) >>,
     reward |-> NoCoin,
     snap |-> {},
     stakers |-> [some |-> TRUE, docs |-> {53}]]

BlockMenu == {BlkReward, BlkPay, BlkChain, BlkSwap, BlkSwapSpent}

\* A liquidity deposit with three declared outputs: the ledger turned
\* output 0 into a liquidity token and took output 1 away; output 2 is
\* change.
BlkDeposit ==
    [hash |-> 15, stakes_hash |-> 3,
     transactions |->
        << Tx(8, "LiqDeposit", << CoinID(1, 0), CoinID(1, 1) >>,
              << CoinData(1, "MEL"), CoinData(1, "SYM"),
                 CoinData(1, "MEL") >>) >>,
     reward |-> NoCoin,
     snap |-> {[id |-> CoinID(8, 0), data |-> CoinData(2, "LIQ")]},
     stakers |-> [some |-> FALSE, docs |-> {}]]

\* A liquidity withdrawal with two declared outputs: the ledger holds
\* three coins for it, the third at the index after the declared ones.
BlkWithdraw ==
    [hash |-> 16, stakes_hash |-> 3,
     transactions |->
        << Tx(9, "LiqWithdraw", << CoinID(8, 0) >>,
              << CoinData(2, "LIQ"), CoinData(1, "LIQ") >>) >>,
     reward |-> NoCoin,
     snap |-> {[id |-> CoinID(9, 0), data |-> CoinData(1, "MEL")],
               [id |-> CoinID(9, 1), data |-> CoinData(1, "SYM")],
               [id |-> CoinID(9, 2), data |-> CoinData(1, "LIQ")]},
     stakers |-> [some |-> FALSE, docs |-> {}]]

\* A transaction of kind LiqWithdraw with as many declared outputs as an
\* index can count (255 for a u8); the ledger holds another coin than the
\* declared one at index 0.
BlkWithdrawFull ==
    [hash |-> 17, stakes_hash |-> 3,
     transactions |->
        << Tx(20, "LiqWithdraw", << CoinID(8, 0) >>,
              [i \in 1..(U8_MOD - 1) |-> CoinData(1, "LIQ")]) >>,
     reward |-> NoCoin,
     snap |-> {[id |-> CoinID(20, 0), data |-> CoinData(2, "MEL")]},
     stakers |-> [some |-> FALSE, docs |-> {}]]

\* The blocks with melswap transactions.
MelswapMenu == {BlkSwap, BlkSwapSpent, BlkDeposit, BlkWithdraw, BlkWithdrawFull}

(***************************************************************************)
(* The store: tables as sets of rows.                                      *)
(***************************************************************************)
EmptyDb == [coins |-> {}, headvars |-> {}, stakes |-> {}, txvars |-> {}]

\* A row of table coins as the insert statement writes it (lib.rs:266).
CoinRow(id, height, data) ==
    [create_txhash |-> id.txhash, create_index |-> id.index,
     create_height |-> height,
     spend_txhash |-> NULL, spend_index |-> NULL, spend_height |-> NULL,
     value |-> data.value, denom |-> data.denom]

\* "select coalesce(max(height), 0) from headvars"
RECURSIVE SetMax(_)
SetMax(S) ==
    IF S = {} THEN 0
    ELSE LET x == CHOOSE y \in S : TRUE
             m == SetMax(S \ {x})
         IN  IF x > m THEN x ELSE m

Heights(d) == {r.height : r \in d.headvars}

MaxHeightQuery(d) == SetMax(Heights(d))

(***************************************************************************)
(* Deriving the coin mutations of one block (lib.rs:198-251).              *)
(***************************************************************************)
\* HashMap::insert and HashMap::remove on maps keyed by coin id.
MapInsert(m, k, v) ==
    [x \in (DOMAIN m) \cup {k} |-> IF x = k THEN v ELSE m[x]]

MapRemove(m, k) == [x \in (DOMAIN m) \ {k} |-> m[x]]

EmptyMap == [x \in {} |-> NoCoin]

\* Snapshot::get_coin(id) on the snapshot pinned at the block's height.
GetCoin(blk, id) ==
    IF \E a \in blk.snap : a.id = id
    THEN (CHOOSE a \in blk.snap : a.id = id).data
    ELSE NoCoin

\* for (i, output) in tx.outputs.iter().enumerate() { new_coins.insert(..) }
RECURSIVE InsertOutputs(_, _, _)
InsertOutputs(nc, tx, i) ==
    IF i > Len(tx.outputs) THEN nc
    ELSE InsertOutputs(MapInsert(nc, CoinID(tx.hash, i - 1), tx.outputs[i]),
                       tx, i + 1)

\* tx.outputs.len() as u8 + 1, exactly.
WithdrawEnd(tx) == (Len(tx.outputs) % U8_MOD) + 1

\* The output indices whose content is taken from the snapshot instead of
\* the transaction (lib.rs:217-246).  The end of the LiqWithdraw range is a
\* u8: a sum that does not fit wraps to 0 where overflow is not checked
\* (where it is checked, see FetchPanics).
SnapshotIndices(tx) ==
    CASE tx.kind = "Swap"        -> {0}
      [] tx.kind = "LiqDeposit"  -> 0..1
      [] tx.kind = "LiqWithdraw" -> 0..((WithdrawEnd(tx) % U8_MOD) - 1)
      [] OTHER                   -> {}

\* A lookup that leaves the declared output in place when the snapshot
\* holds no coin for the id.
RECURSIVE ResolveKeepsDeclared(_, _, _, _)
ResolveKeepsDeclared(nc, tx, blk, todo) ==
    IF todo = {} THEN nc
    ELSE LET i    == CHOOSE j \in todo : \A k \in todo : j <= k
             id   == CoinID(tx.hash, i)
             coin == GetCoin(blk, id)
         IN  ResolveKeepsDeclared(IF coin = NoCoin THEN nc
                                  ELSE MapInsert(nc, id, coin),
                                  tx, blk, todo \ {i})

\* new_coins.remove(&id); if let Some(coin) = snap.get_coin(id) { insert }
RECURSIVE Resolve(_, _, _, _)
Resolve(nc, tx, blk, todo) ==
    IF todo = {} THEN nc
    ELSE LET i    == CHOOSE j \in todo : \A k \in todo : j <= k
             id   == CoinID(tx.hash, i)
             gone == MapRemove(nc, id)
             coin == GetCoin(blk, id)
         IN  Resolve(IF coin = NoCoin THEN gone ELSE MapInsert(gone, id, coin),
                     tx, blk, todo \ {i})

\* for (i, input) in tx.inputs.iter().enumerate() { spent_coins.insert(..) }
RECURSIVE InsertInputs(_, _, _)
InsertInputs(sc, tx, i) ==
    IF i > Len(tx.inputs) THEN sc
    ELSE InsertInputs(MapInsert(sc, tx.inputs[i],
                                [txhash |-> tx.hash, index |-> i - 1]),
                      tx, i + 1)

\* for tx in blk.transactions.iter() { ... }
RECURSIVE DeriveTxs(_, _, _, _)
DeriveTxs(blk, i, nc, sc) ==
    IF i > Len(blk.transactions) THEN [new_coins |-> nc, spent_coins |-> sc]
    ELSE LET tx == blk.transactions[i]
         IN  DeriveTxs(blk, i + 1,
                       Resolve(InsertOutputs(nc, tx, 1), tx, blk,
                               SnapshotIndices(tx)),
                       InsertInputs(sc, tx, 1))

\* new_coins and spent_coins of the block at `height`.
Derive(blk, height) ==
    DeriveTxs(blk, 1,
              IF blk.reward = NoCoin THEN EmptyMap
              ELSE MapInsert(EmptyMap, ProposerReward(height), blk.reward),
              [x \in {} |-> [txhash |-> NULL, index |-> NULL]])

(***************************************************************************)
(* The statements of the commit (lib.rs:262-332).                          *)
(***************************************************************************)
\* UNIQUE(create_txhash, create_index, create_height) ON CONFLICT IGNORE
CoinConflict(coins, row) ==
    \E r \in coins : /\ r.create_txhash = row.create_txhash
                     /\ r.create_index = row.create_index
                     /\ r.create_height = row.create_height

\* "insert into coins values ($1, $2, $3, NULL, NULL, NULL, ...)" for every
\* entry of new_coins.
InsertCoins(coins, nc, height) ==
    coins \cup {row \in {CoinRow(id, height, nc[id]) : id \in DOMAIN nc} :
                   ~CoinConflict(coins, row)}

\* An update that leaves spend_height out of its set list.
SetSpendNoHeight(row, txhash, index, height) ==
    [row EXCEPT !.spend_txhash = txhash, !.spend_index = index]

\* "update coins set spend_txhash = $1, spend_index = $2, spend_height = $3"
SetSpend(row, txhash, index, height) ==
    [row EXCEPT !.spend_txhash = txhash, !.spend_index = index,
                !.spend_height = height]

\* "... where create_txhash = $4 and create_index = $5" for every entry of
\* spent_coins.
UpdateSpends(coins, sc, height) ==
    {IF CoinID(r.create_txhash, r.create_index) \in DOMAIN sc
     THEN LET by == sc[CoinID(r.create_txhash, r.create_index)]
          IN  SetSpend(r, by.txhash, by.index, height)
     ELSE r : r \in coins}

\* "insert into headvars values (...)", UNIQUE(height) ON CONFLICT IGNORE
InsertHeadvars(headvars, blk, height) ==
    IF \E r \in headvars : r.height = height THEN headvars
    ELSE headvars \cup {[height |-> height, blkhash |-> blk.hash]}

\* "insert into stakes values (...)", UNIQUE(txhash) ON CONFLICT IGNORE
InsertStakes(stakes, fetched) ==
    IF fetched.some THEN stakes \cup fetched.docs ELSE stakes

\* "insert into txvars values (...)", UNIQUE(txhash) ON CONFLICT IGNORE
InsertTxvars(txvars, blk) ==
    txvars \cup
    {row \in {[txhash |-> blk.transactions[i].hash,
               kind |-> blk.transactions[i].kind] :
                 i \in 1..Len(blk.transactions)} :
        ~\E r \in txvars : r.txhash = row.txhash}

(***************************************************************************)
(* CoinQuery (coinquery.rs) and the read operations of Indexer (lib.rs).   *)
(***************************************************************************)
\* CoinQuery::new: filters: vec![], params: vec![].  A query is the list of
\* its filters, each with the parameter bound to its `?`.
NewQuery == << >>

\* self.filters.push(format!("{} == ?", field)); self.params.push(val)
AddEqFilter(q, field, val) ==
    Append(q, [field |-> field, op |-> "==", val |-> val])

Included(v) == [bound |-> "Included", v |-> v]
Excluded(v) == [bound |-> "Excluded", v |-> v]
Unbounded == [bound |-> "Unbounded", v |-> NULL]

\* add_range_filter: ">=" or ">" for the start bound, "<=" or "<" for the
\* end bound, nothing for an unbounded side.
AddRangeFilter(q, field, start, end) ==
    LET q1 == CASE start.bound = "Included" ->
                     Append(q, [field |-> field, op |-> ">=", val |-> start.v])
                [] start.bound = "Excluded" ->
                     Append(q, [field |-> field, op |-> ">", val |-> start.v])
                [] OTHER -> q
    IN  CASE end.bound = "Included" ->
               Append(q1, [field |-> field, op |-> "<=", val |-> end.v])
          [] end.bound = "Excluded" ->
               Append(q1, [field |-> field, op |-> "<", val |-> end.v])
          [] OTHER -> q1

CreateHeightRange(q, start, end) ==
    AddRangeFilter(q, "create_height", start, end)

SpendHeightRange(q, start, end) ==
    AddRangeFilter(q, "spend_height", start, end)

\* self.filters.push("spend_txhash is null".into())
Unspent(q) ==
    Append(q, [field |-> "spend_txhash", op |-> "is null", val |-> NULL])

SpendTxhash(q, txhash) == AddEqFilter(q, "spend_txhash", txhash)

Denom(q, denom) == AddEqFilter(q, "denom", denom)

\* One conjunct of the WHERE clause on one row.  A comparison with a NULL
\* column is not true in SQL.
FilterHolds(f, row) ==
    LET x == row[f.field]
    IN  CASE f.op = "is null" -> x = NULL
          [] f.op = "=="      -> x = f.val
          [] f.op = ">="      -> x # NULL /\ x >= f.val
          [] f.op = ">"       -> x # NULL /\ x > f.val
          [] f.op = "<="      -> x # NULL /\ x <= f.val
          [] f.op = "<"       -> x # NULL /\ x < f.val

\* format!("select * from coins where {}", filters.join(" and ")) and
\* conn.prepare_cached(&query).unwrap(): with no filter the text ends in
\* "where ", which the store does not accept as a statement.
Prepares(q) == Len(q) > 0

\* The closure of query_map on one row: spend_index.unwrap() and
\* spend_height.unwrap() run whenever spend_txhash is not NULL.
Decodes(row) ==
    row.spend_txhash # NULL =>
        row.spend_index # NULL /\ row.spend_height # NULL

\* The rows the statement selects.
Selected(q, coins) ==
    {r \in coins : \A i \in 1..Len(q) : FilterHolds(q[i], r)}

\* CoinQuery::iter, consumed to its end.
Iter(q, coins) ==
    IF ~Prepares(q) THEN [status |-> "panic", rows |-> {}]
    ELSE IF \E r \in Selected(q, coins) : ~Decodes(r)
         THEN [status |-> "panic", rows |-> {}]
         ELSE [status |-> "ok", rows |-> Selected(q, coins)]

(***************************************************************************)
(* State.                                                                  *)
(***************************************************************************)
VARIABLES
    chain,        \* the node's blocks: chain[h + 1] is the block at height h
    stable,       \* TRUE once the node's tip is final and calls stop failing
    db,           \* the committed store, as every connection reads it
    txn,          \* the open transaction of the ingestion task, if any
    task,         \* indexer_loop: position and locals of the running pass
    spend_writes, \* per coin row, how many commits wrote its spend fields
    db_before,    \* the committed store when the current height was started
    rd,           \* the last call of a read operation and what it returned
    tracker,      \* a BalanceTracker: its base query and its cache
    bal,          \* the last call of balance_at and how it ended
    pool,         \* the connection pool: its queue and who holds what
    handle,       \* the Indexer handle: live, or dropped and at what point
    calls,        \* the heights probed on the tracker so far, in order
    mutex,        \* the cache mutex: "free" or the caller that holds it
    callers       \* per concurrent caller of balance_at, where its call is

balVars == <<tracker, bal>>

hostVars == <<pool, handle, calls, mutex, callers>>

vars ==
    <<chain, stable, db, txn, task, spend_writes, db_before, rd, balVars,
      hostVars>>

NoTxn == [open |-> FALSE, state |-> EmptyDb]

\* The threads that share one BalanceTracker.
Callers == {"caller_a", "caller_b"}

\* A caller that is not inside balance_at.
NotCalling ==
    [pc |-> "idle", height |-> NULL, from |-> "none", found |-> NULL,
     acc |-> 0, next |-> [height |-> NULL, balance |-> 0],
     prev |-> [height |-> NULL, balance |-> 0], balance |-> NULL]

NoStakers == [some |-> FALSE, docs |-> {}]

NoSpent == [x \in {} |-> [txhash |-> NULL, index |-> NULL]]

\* The locals of indexer_loop_once before a pass has read anything.
IdleTask(pc, result) ==
    [pc |-> pc, result |-> result,
     our_highest |-> 0, their_highest |-> 0, height |-> 0,
     last_stakes |-> NULL,
     new_coins |-> EmptyMap, spent_coins |-> NoSpent, stakes |-> NoStakers]

\* BTreeMap::default()
NoCache == [h \in {} |-> 0]

NoCall == [height |-> NULL, status |-> "none", value |-> NULL, from |-> "none"]

NoRead ==
    [op |-> "none", query |-> << >>, txhash |-> NULL, status |-> "none",
     rows |-> {}, height |-> NULL]

\* Pool::open: queue.push(db) puts the one connection it opened in the
\* queue; nobody holds a connection.  Connections are numbered as opened.
PoolOpen ==
    [queue |-> <<1>>, held |-> [h \in {} |-> 0], opened |-> 1,
     last |-> [holder |-> "none", how |-> "none", conn |-> 0]]

\* Indexer::new returns the handle that owns _task; `at` remembers where
\* the task and the store were when the handle was dropped.
LiveHandle ==
    [state |-> "live", at |-> [pc |-> "none", height |-> NULL, heights |-> {}]]

Init ==
    /\ chain \in {<<b>> : b \in BlockMenu}
    /\ stable = FALSE
    /\ db = EmptyDb
    /\ txn = NoTxn
    /\ task = IdleTask("start", "none")
    /\ spend_writes = [k \in {} |-> 0]
    /\ db_before = EmptyDb
    /\ rd = NoRead
    /\ tracker = [query |-> NewQuery, cache |-> NoCache]
    /\ bal = NoCall
    /\ pool = PoolOpen
    /\ mutex = "free"
    /\ callers = [c \in Callers |-> NotCalling]
    /\ handle = LiveHandle
    /\ calls = << >>

\* The node's tip: highest_snap.current_header().height
Tip == Len(chain) - 1

(***************************************************************************)
(* indexer_loop and indexer_loop_once (lib.rs:174-336).                    *)
(***************************************************************************)
\* A range that leaves the node's tip out: our_highest..their_highest.
HeightRangeExclusive(our_highest, their_highest) ==
    our_highest..(their_highest - 1)

\* A range that starts over at the first height on every pass.
HeightRangeFromZero(our_highest, their_highest) == 0..their_highest

\* (our_highest..=their_highest.0)
HeightRange(our_highest, their_highest) == our_highest..their_highest

\* The first height the for loop visits; past the range when it is empty.
FirstHeight(our_highest, their_highest) ==
    LET range == HeightRange(our_highest, their_highest)
    IN  IF range = {} THEN their_highest + 1
        ELSE CHOOSE h \in range : \A g \in range : h <= g

\* An error that is logged inside the for loop, which then goes on with
\* the next height.
OnErrorSkipHeight(t) ==
    IF t.pc \in {"start", "snap"} THEN IdleTask("sleep", "err")
    ELSE [t EXCEPT !.pc = "fetch", !.height = @ + 1, !.result = "err",
                   !.new_coins = EmptyMap, !.spent_coins = NoSpent,
                   !.stakes = NoStakers]

\* What `?` does with an error anywhere in the pass: indexer_loop_once
\* returns Err, indexer_loop logs it and goes to sleep.
OnError(t) == IdleTask("sleep", "err")

\* Statements run outside a transaction: what they wrote stays.
RollbackKeepsWrites(committed, working) == working

\* Dropping the rusqlite Transaction without commit rolls it back: the
\* committed store is what it was.
Rollback(committed, working) == committed

\* The positions of a pass at which a call may return an error.
Fallible ==
    {"start", "snap", "fetch", "stakes", "begin", "ins_coins", "upd_spends",
     "ins_head", "ins_stakes", "ins_txvars", "commit"}

\* let our_highest = pool.get_conn().query_row("select coalesce(max..")?
ReadOurHighest ==
    /\ task.pc = "start"
    /\ task' = [task EXCEPT !.pc = "snap",
                            !.our_highest = MaxHeightQuery(db)]
    /\ UNCHANGED <<chain, stable, db, txn, spend_writes, db_before, rd, balVars,
                   hostVars>>

\* let highest_snap = client.latest_snapshot().await?; their_highest = ..
LatestSnapshot ==
    /\ task.pc = "snap"
    /\ task' = [task EXCEPT !.pc = "fetch",
                            !.their_highest = Tip,
                            !.height = FirstHeight(task.our_highest, Tip),
                            !.last_stakes = NULL]
    /\ UNCHANGED <<chain, stable, db, txn, spend_writes, db_before, rd, balVars,
                   hostVars>>

\* The for loop is exhausted: Ok(()), then the 1 s timer of indexer_loop.
PassDone ==
    /\ task.pc = "fetch"
    /\ task.height \notin HeightRange(task.our_highest, task.their_highest)
    /\ task' = IdleTask("sleep", "ok")
    /\ UNCHANGED <<chain, stable, db, txn, spend_writes, db_before, rd, balVars,
                   hostVars>>

\* get_older(height), current_block(), the get_coin lookups and the
\* derivation of new_coins and spent_coins for this height.
FetchBlock ==
    /\ task.pc = "fetch"
    /\ task.height \in HeightRange(task.our_highest, task.their_highest)
    /\ LET d == Derive(chain[task.height + 1], task.height)
       IN  task' = [task EXCEPT !.pc = "stakes",
                                !.new_coins = d.new_coins,
                                !.spent_coins = d.spent_coins]
    /\ db_before' = db
    /\ UNCHANGED <<chain, stable, db, txn, spend_writes, rd, balVars,
                   hostVars>>

\* A step that fetches the staker list at every height.
FetchStakesAlways ==
    /\ task.pc = "stakes"
    /\ LET blk == chain[task.height + 1]
       IN  task' = [task EXCEPT !.pc = "begin",
                                !.last_stakes = blk.stakes_hash,
                                !.stakes = blk.stakers]
    /\ UNCHANGED <<chain, stable, db, txn, spend_writes, db_before, rd, balVars,
                   hostVars>>

\* let stakes = if last_stakes != Some(blk.header.stakes_hash) { .. }
FetchStakes ==
    /\ task.pc = "stakes"
    /\ LET blk == chain[task.height + 1]
       IN  task' = IF task.last_stakes # blk.stakes_hash
                   THEN [task EXCEPT !.pc = "begin",
                                     !.last_stakes = blk.stakes_hash,
                                     !.stakes = blk.stakers]
                   ELSE [task EXCEPT !.pc = "begin", !.stakes = NoStakers]
    /\ UNCHANGED <<chain, stable, db, txn, spend_writes, db_before, rd, balVars,
                   hostVars>>

\* let mut conn = pool.get_conn(); let conn = conn.transaction()?;
BeginTxn ==
    /\ task.pc = "begin"
    /\ txn' = [open |-> TRUE, state |-> db]
    /\ task' = [task EXCEPT !.pc = "ins_coins"]
    /\ UNCHANGED <<chain, stable, db, spend_writes, db_before, rd, balVars,
                   hostVars>>

StmtInsertCoins ==
    /\ task.pc = "ins_coins"
    /\ txn' = [txn EXCEPT !.state.coins =
                  InsertCoins(@, task.new_coins, task.height)]
    /\ task' = [task EXCEPT !.pc = "upd_spends"]
    /\ UNCHANGED <<chain, stable, db, spend_writes, db_before, rd, balVars,
                   hostVars>>

StmtUpdateSpends ==
    /\ task.pc = "upd_spends"
    /\ txn' = [txn EXCEPT !.state.coins =
                  UpdateSpends(@, task.spent_coins, task.height)]
    /\ task' = [task EXCEPT !.pc = "ins_head"]
    /\ UNCHANGED <<chain, stable, db, spend_writes, db_before, rd, balVars,
                   hostVars>>

StmtInsertHeadvars ==
    /\ task.pc = "ins_head"
    /\ txn' = [txn EXCEPT !.state.headvars =
                  InsertHeadvars(@, chain[task.height + 1], task.height)]
    /\ task' = [task EXCEPT !.pc = "ins_stakes"]
    /\ UNCHANGED <<chain, stable, db, spend_writes, db_before, rd, balVars,
                   hostVars>>

StmtInsertStakes ==
    /\ task.pc = "ins_stakes"
    /\ txn' = [txn EXCEPT !.state.stakes = InsertStakes(@, task.stakes)]
    /\ task' = [task EXCEPT !.pc = "ins_txvars"]
    /\ UNCHANGED <<chain, stable, db, spend_writes, db_before, rd, balVars,
                   hostVars>>

StmtInsertTxvars ==
    /\ task.pc = "ins_txvars"
    /\ txn' = [txn EXCEPT !.state.txvars =
                  InsertTxvars(@, chain[task.height + 1])]
    /\ task' = [task EXCEPT !.pc = "commit"]
    /\ UNCHANGED <<chain, stable, db, spend_writes, db_before, rd, balVars,
                   hostVars>>

\* The key of a coin row.
RowKey(r) ==
    [txhash |-> r.create_txhash, index |-> r.create_index,
     height |-> r.create_height]

\* The rows whose spend fields the update statements of this height wrote.
SpendWritten(coins, sc) ==
    {RowKey(r) : r \in {x \in coins :
                    CoinID(x.create_txhash, x.create_index) \in DOMAIN sc}}

\* conn.commit()?; then the next height of the for loop.
Commit ==
    /\ task.pc = "commit"
    /\ db' = txn.state
    /\ txn' = NoTxn
    /\ LET w == SpendWritten(txn.state.coins, task.spent_coins)
       IN  spend_writes' =
              [k \in (DOMAIN spend_writes) \cup w |->
                  IF k \notin w THEN spend_writes[k]
                  ELSE IF k \in DOMAIN spend_writes THEN 2 ELSE 1]
    /\ task' = [task EXCEPT !.pc = "fetch", !.height = @ + 1,
                            !.new_coins = EmptyMap, !.spent_coins = NoSpent,
                            !.stakes = NoStakers]
    /\ UNCHANGED <<chain, stable, db_before, rd, balVars,
                   hostVars>>

\* Any call of the pass returns Err: the transaction, if one is open, is
\* dropped, and the pass ends.
StepFails ==
    /\ ~stable
    /\ task.pc \in Fallible
    /\ db' = Rollback(db, IF txn.open THEN txn.state ELSE db)
    /\ txn' = NoTxn
    /\ task' = OnError(task)
    /\ UNCHANGED <<chain, stable, spend_writes, db_before, rd, balVars,
                   hostVars>>

\* smol::Timer::after(Duration::from_secs(1)).await; then the next pass.
Sleep ==
    /\ task.pc = "sleep"
    /\ task' = IdleTask("start", "none")
    /\ UNCHANGED <<chain, stable, db, txn, spend_writes, db_before, rd, balVars,
                   hostVars>>

Ingest ==
    \/ ReadOurHighest
    \/ LatestSnapshot
    \/ PassDone
    \/ FetchBlock
    \/ FetchStakes
    \/ BeginTxn
    \/ StmtInsertCoins
    \/ StmtUpdateSpends
    \/ StmtInsertHeadvars
    \/ StmtInsertStakes
    \/ StmtInsertTxvars
    \/ Commit
    \/ Sleep

(***************************************************************************)
(* The node.                                                               *)
(***************************************************************************)
\* The node appends a block to its chain.
NodeAdvance ==
    /\ ~stable
    /\ Tip < MaxTip
    /\ \E b \in BlockMenu : chain' = Append(chain, b)
    /\ UNCHANGED <<stable, db, txn, task, spend_writes, db_before, rd, balVars,
                   hostVars>>

\* From here on the tip stays where it is and no call fails.
Stabilize ==
    /\ ~stable
    /\ stable' = TRUE
    /\ UNCHANGED <<chain, db, txn, task, spend_writes, db_before, rd, balVars,
                   hostVars>>

\* The ingestion task against a node whose calls may fail.
SpecIngest ==
    /\ Init
    /\ [][
          \/ Ingest
          \/ StepFails
          \/ NodeAdvance
         ]_vars

\* The same, with the point from which the node is stable; the task is
\* scheduled fairly (smolscale runs a spawned task whenever it can step).
SpecLive ==
    /\ Init
    /\ [][
          \/ Ingest
          \/ StepFails
          \/ NodeAdvance
          \/ Stabilize
         ]_vars
    /\ WF_vars(Ingest)

(***************************************************************************)
(* Readers: calls on the Indexer handle, on the committed store.           *)
(***************************************************************************)
\* Queries a caller builds from query_coins().
ReaderQueries == {NewQuery, Unspent(NewQuery)}

\* Transaction hashes a caller asks about; 7 is in no block of the menu.
ReaderTxHashes == 1..7

\* q.iter() consumed to its end, for a query q built from query_coins().
ReadIter ==
    /\ \E q \in ReaderQueries :
           LET it == Iter(q, db.coins)
           IN  rd' = [op |-> "iter", query |-> q, txhash |-> NULL,
                      status |-> it.status, rows |-> it.rows, height |-> NULL]
    /\ UNCHANGED <<chain, stable, db, txn, task, spend_writes, db_before, balVars,
                   hostVars>>

\* self.query_coins().spend_txhash(txhash).iter()
\*     .map(|c| c.spend_info.unwrap().spend_height).next()
\* The first row is whichever the store yields first.
TxhashToHeight ==
    /\ \E t \in ReaderTxHashes :
           LET q   == SpendTxhash(NewQuery, t)
               sel == Selected(q, db.coins)
           IN  \/ /\ sel = {}
                  /\ rd' = [op |-> "txhash_to_height", query |-> q, txhash |-> t,
                            status |-> "ok", rows |-> {}, height |-> NULL]
               \/ \E r \in sel :
                     rd' = [op |-> "txhash_to_height", query |-> q, txhash |-> t,
                            status |-> IF Decodes(r) THEN "ok" ELSE "panic",
                            rows |-> {},
                            height |-> IF Decodes(r) THEN r.spend_height
                                       ELSE NULL]
    /\ UNCHANGED <<chain, stable, db, txn, task, spend_writes, db_before, balVars,
                   hostVars>>

SpecRead ==
    /\ Init
    /\ [][
          \/ Ingest
          \/ StepFails
          \/ NodeAdvance
          \/ ReadIter
          \/ TxhashToHeight
         ]_vars

(***************************************************************************)
(* BalanceTracker (balance.rs).                                            *)
(***************************************************************************)
\* .fold(0, |a, b| a + b.coin_data.value): the sum of the rows' values.
RECURSIVE SumValues(_)
SumValues(rows) ==
    IF rows = {} THEN 0
    ELSE LET r == CHOOSE x \in rows : TRUE
         IN  r.value + SumValues(rows \ {r})

\* A balance_diff whose ranges include `start`: start..=end.
BalanceDiffFromStart(q, coins, start, end) ==
    SumValues(Selected(CreateHeightRange(q, Included(start),
                                         Included(end)), coins))
    - SumValues(Selected(SpendHeightRange(q, Included(start),
                                          Included(end)), coins))

\* The first fold of balance_diff: coins created in start + 1..=end.
CreatedIn(q, coins, start, end) ==
    SumValues(Selected(CreateHeightRange(q, Included(start + 1),
                                         Included(end)), coins))

\* The second fold of balance_diff: coins spent in start + 1..=end.
SpentIn(q, coins, start, end) ==
    SumValues(Selected(SpendHeightRange(q, Included(start + 1),
                                        Included(end)), coins))

\* balance_diff(start, end): coins created in start + 1..=end minus coins
\* spent in start + 1..=end, as an i128.
BalanceDiff(q, coins, start, end) ==
    CreatedIn(q, coins, start, end) - SpentIn(q, coins, start, end)

\* The first sum of the from-scratch branch (balance.rs:49-56): coins
\* created at or before height that are unspent.
UnspentAt(q, coins, height) ==
    SumValues(Selected(Unspent(CreateHeightRange(q, Unbounded,
                                                 Included(height))), coins))

\* The second sum (balance.rs:57-64): coins created at or before height
\* and spent above it.
SpentAfter(q, coins, height) ==
    SumValues(Selected(SpendHeightRange(
                          CreateHeightRange(q, Unbounded, Included(height)),
                          Included(height + 1), Unbounded), coins))

\* The two sums of the from-scratch branch (balance.rs:49-64).
FromScratch(q, coins, height) ==
    UnspentAt(q, coins, height) + SpentAfter(q, coins, height)

\* `diff as u128`: the two's complement bits of the i128 read as unsigned.
AsU128(diff) == diff % U128_MOD

\* u64::abs_diff
AbsDiff(a, b) == IF a < b THEN b - a ELSE a - b

\* cache.range(height + 1..).next(), or (u64::MAX, CoinValue(0))
NextEntry(cache, height) ==
    LET above == {k \in DOMAIN cache : k >= height + 1}
    IN  IF above = {} THEN [height |-> U64_MAX, balance |-> 0]
        ELSE LET k == CHOOSE x \in above : \A y \in above : x <= y
             IN  [height |-> k, balance |-> cache[k]]

\* cache.range(..height).next_back(), or (u64::MAX, CoinValue(0))
PrevEntry(cache, height) ==
    LET below == {k \in DOMAIN cache : k < height}
    IN  IF below = {} THEN [height |-> U64_MAX, balance |-> 0]
        ELSE LET k == CHOOSE x \in below : \A y \in below : x >= y
             IN  [height |-> k, balance |-> cache[k]]

\* if height.abs_diff(next_height) < height.abs_diff(prev_height)
FromNext(height, next_height, prev_height) ==
    AbsDiff(height, next_height) < AbsDiff(height, prev_height)

\* The delta branch (balance.rs:70-96): the neighbour used, and the exact
\* result of the u128 addition or subtraction before it is reduced.
Delta(q, coins, cache, height) ==
    LET next == NextEntry(cache, height)
        prev == PrevEntry(cache, height)
    IN  IF FromNext(height, next.height, prev.height)
        THEN [from |-> "next", next |-> next, prev |-> prev,
              exact |-> next.balance
                        - AsU128(BalanceDiff(q, coins, height, next.height))]
        ELSE [from |-> "prev", next |-> next, prev |-> prev,
              exact |-> prev.balance
                        + AsU128(BalanceDiff(q, coins, prev.height, height))]

\* cache.insert(height, balance)
CacheInsert(cache, height, balance) ==
    [k \in (DOMAIN cache) \cup {height} |->
        IF k = height THEN balance ELSE cache[k]]

\* Whether the exact result is a u128.  One that is not wraps around in a
\* build without overflow checks and aborts the call in a build with them.
Fits(exact) == 0 <= exact /\ exact < U128_MOD

\* i64::MAX: rusqlite binds a u64 parameter through i64::try_from, and a
\* value above it makes query_map return Err, which iter() unwraps.
I64_MAX == 2^(HeightBits - 1) - 1

\* The heights a branch of balance_at binds as query parameters.
BoundParams(from, height, next_height, prev_height) ==
    CASE from = "scratch" -> {height, height + 1}
      [] from = "next"    -> {height + 1, next_height}
      [] from = "prev"    -> {prev_height + 1, height}

\* Whether all of them bind.
Binds(params) == \A v \in params : v <= I64_MAX

\* The record of a call that aborted.
Aborted(height, from) ==
    [height |-> height, status |-> "panic", value |-> NULL, from |-> from]

\* An end of the delta branch that inserts whatever it computed.
MemoizeAlways(height, from, exact, prev_balance, next_balance) ==
    LET balance == exact % U128_MOD
    IN  \/ /\ ~Fits(exact)
           /\ bal' = Aborted(height, from)
           /\ UNCHANGED tracker
        \/ /\ bal' = [height |-> height, status |-> "ok",
                      value |-> balance, from |-> from]
           /\ tracker' = [tracker EXCEPT !.cache =
                             CacheInsert(@, height, balance)]

\* The end of the delta branch (balance.rs:90-101): the u128 result, the
\* insert unless it equals a neighbour's balance, and the return.
Memoize(height, from, exact, prev_balance, next_balance) ==
    LET balance == exact % U128_MOD
    IN  \/ /\ ~Fits(exact)
           /\ bal' = Aborted(height, from)
           /\ UNCHANGED tracker
        \/ /\ bal' = [height |-> height, status |-> "ok",
                      value |-> balance, from |-> from]
           /\ tracker' = IF balance # prev_balance /\ balance # next_balance
                         THEN [tracker EXCEPT !.cache =
                                  CacheInsert(@, height, balance)]
                         ELSE tracker

\* The branch of balance_at a miss on a non-empty cache takes.
Branch(cache, height) ==
    IF FromNext(height, NextEntry(cache, height).height,
                PrevEntry(cache, height).height)
    THEN "next" ELSE "prev"

\* balance_at(height) on the tracker, the store not changing meanwhile.
BalanceAtHeight(height) ==
    LET q     == tracker.query
        cache == tracker.cache
    IN  IF height \in DOMAIN cache
        THEN /\ bal' = [height |-> height, status |-> "ok",
                        value |-> cache[height], from |-> "hit"]
             /\ UNCHANGED tracker
        ELSE IF DOMAIN cache = {}
        THEN IF ~Binds(BoundParams("scratch", height, NULL, NULL))
             THEN /\ bal' = Aborted(height, "scratch")
                  /\ UNCHANGED tracker
             ELSE LET result == FromScratch(q, db.coins, height)
                  IN  /\ bal' = [height |-> height, status |-> "ok",
                                 value |-> result, from |-> "scratch"]
                      /\ tracker' = [tracker EXCEPT !.cache =
                                        CacheInsert(@, height, result)]
        ELSE LET next == NextEntry(cache, height)
                 prev == PrevEntry(cache, height)
                 from == Branch(cache, height)
             IN  IF ~Binds(BoundParams(from, height, next.height,
                                       prev.height))
                 THEN /\ bal' = Aborted(height, from)
                      /\ UNCHANGED tracker
                 ELSE LET d == Delta(q, db.coins, cache, height)
                      IN  Memoize(height, d.from, d.exact, d.prev.balance,
                                  d.next.balance)

\* A call at one of the heights a caller probes.
BalanceAt ==
    /\ \E height \in 0..MaxProbe : BalanceAtHeight(height)
    /\ UNCHANGED <<chain, stable, db, txn, task, spend_writes, db_before, rd,
                   hostVars>>

(***************************************************************************)
(* A store that ingestion has brought up to the node's tip and that does   *)
(* not change while a tracker is probed.                                   *)
(***************************************************************************)
\* The statements of one height's transaction, in their order.
CommitHeight(d, blk, height, fetched) ==
    LET m == Derive(blk, height)
    IN  [coins    |-> UpdateSpends(InsertCoins(d.coins, m.new_coins, height),
                                   m.spent_coins, height),
         headvars |-> InsertHeadvars(d.headvars, blk, height),
         stakes   |-> InsertStakes(d.stakes, fetched),
         txvars   |-> InsertTxvars(d.txvars, blk)]

\* One pass without errors over heights `height`..tip of chain ch.
RECURSIVE PassFrom(_, _, _, _)
PassFrom(d, ch, height, last_stakes) ==
    IF height > Len(ch) - 1 THEN d
    ELSE LET blk == ch[height + 1]
         IN  PassFrom(CommitHeight(d, blk, height,
                                   IF last_stakes # blk.stakes_hash
                                   THEN blk.stakers ELSE NoStakers),
                      ch, height + 1, blk.stakes_hash)

\* Chains of the node up to the bound.
Chains ==
    UNION {[1..n -> BlockMenu] : n \in 1..(MaxTip + 1)}

\* Base queries a tracker is made from: query.balance_tracker().
BaseQueries == {NewQuery, Denom(NewQuery, "MEL")}

InitBal ==
    /\ chain \in Chains
    /\ stable = TRUE
    /\ db = PassFrom(EmptyDb, chain, 0, NULL)
    /\ txn = NoTxn
    /\ task = IdleTask("sleep", "ok")
    /\ spend_writes = [k \in {} |-> 0]
    /\ db_before = EmptyDb
    /\ rd = NoRead
    /\ tracker \in {[query |-> q, cache |-> NoCache] : q \in BaseQueries}
    /\ bal = NoCall
    /\ pool = PoolOpen
    /\ mutex = "free"
    /\ callers = [c \in Callers |-> NotCalling]
    /\ handle = LiveHandle
    /\ calls = << >>

SpecBal ==
    /\ InitBal
    /\ [][
          \/ BalanceAt
         ]_vars

(***************************************************************************)
(* Claims about the balance tracker.                                       *)
(***************************************************************************)
\* Alive at h: created at a height <= h, and unspent or spent above h.
AliveAt(row, h) ==
    /\ row.create_height <= h
    /\ row.spend_height = NULL \/ row.spend_height > h

\* The sum of value over the coins matching q that are alive at h.
AliveSum(q, coins, h) ==
    SumValues({r \in Selected(q, coins) : AliveAt(r, h)})

MutationsAt(g) == Derive(chain[g + 1], g)

\* The row of coin `id` created at height g, if the table has it.
RowsOf(coins, id) ==
    {r \in coins : r.create_txhash = id.txhash /\ r.create_index = id.index}

\* C2: whenever HeightInfo holds a row for h, the committed coin table holds,
\* for every height g <= h, each coin the block at g creates and, on every
\* row a spend of that block matches, the spend triple of that block or of
\* a later committed block naming the same coin; and no committed coin row
\* is created or spent at a height that has no HeightInfo row.
C2_HeightRowImpliesMutations ==
    /\ \A h \in Heights(db) : \A g \in 0..h :
          /\ \A id \in DOMAIN MutationsAt(g).new_coins :
                \E r \in RowsOf(db.coins, id) :
                    /\ r.create_height = g
                    /\ r.value = MutationsAt(g).new_coins[id].value
                    /\ r.denom = MutationsAt(g).new_coins[id].denom
          /\ \A id \in DOMAIN MutationsAt(g).spent_coins :
                \A r \in RowsOf(db.coins, id) :
                    r.create_height <= g =>
                       \E g2 \in g..MaxHeightQuery(db) :
                          /\ id \in DOMAIN MutationsAt(g2).spent_coins
                          /\ r.spend_txhash = MutationsAt(g2).spent_coins[id].txhash
                          /\ r.spend_index = MutationsAt(g2).spent_coins[id].index
                          /\ r.spend_height = g2
    /\ \A r \in db.coins :
          /\ r.create_height \in Heights(db)
          /\ r.spend_height # NULL => r.spend_height \in Heights(db)

\* C2 witness: a reader's view while the transaction of height 2 holds
\* uncommitted coin rows and its HeightInfo row, with a spend of height 1
\* committed.
C2_Witness ==
    /\ txn.open
    /\ task.height = 2
    /\ txn.state.coins # db.coins
    /\ 2 \in Heights(txn.state)
    /\ Heights(db) = {0, 1}
    /\ \E r \in db.coins : r.spend_height = 1

\* C3: the heights of HeightInfo have no gap.
C3_HeightsContiguous ==
    \A h \in Heights(db) : \A h2 \in Heights(db) :
        h < h2 => \A g \in h..h2 : g \in Heights(db)

\* C3 witness: three heights are committed and the pass after them failed.
C3_Witness ==
    /\ Cardinality(Heights(db)) >= 3
    /\ task.result = "err"

\* C4: a coin row's spend_height is never below its create_height.
C4_SpendNotBeforeCreate ==
    \A r \in db.coins :
        r.spend_height # NULL => r.spend_height >= r.create_height

\* C4 witness: one committed row is spent at the height that created it,
\* and another, still unspent, has an id that an earlier committed block
\* named as an input.
C4_Witness ==
    /\ \E r \in db.coins : r.spend_height = r.create_height
    /\ \E r \in db.coins :
          /\ r.spend_height = NULL
          /\ \E g \in Heights(db) :
                /\ g < r.create_height
                /\ CoinID(r.create_txhash, r.create_index)
                      \in DOMAIN MutationsAt(g).spent_coins

\* C5: the three spend fields of a coin row are all NULL or all set.
C5_SpendTripleTogether ==
    \A r \in db.coins :
        /\ (r.spend_txhash = NULL) <=> (r.spend_index = NULL)
        /\ (r.spend_index = NULL) <=> (r.spend_height = NULL)

\* C5 witness: the table holds a spent row and an unspent row.
C5_Witness ==
    /\ \E r \in db.coins : r.spend_txhash # NULL
    /\ \E r \in db.coins : r.spend_txhash = NULL

\* The row of db2 with the key of r.
SameRow(coins2, r) == {x \in coins2 : RowKey(x) = RowKey(r)}

\* C6 as stated: once a commit has set a row's spend triple, no later
\* commit writes the row's spend fields again or clears them.
C6_SpendWrittenOnce ==
    [][\A r \in db.coins :
          r.spend_txhash # NULL =>
             /\ RowKey(r) \in DOMAIN spend_writes
             /\ spend_writes'[RowKey(r)] = spend_writes[RowKey(r)]
             /\ \A x \in SameRow(db'.coins, r) : x.spend_txhash # NULL]_vars

\* C6 amended: once set, a row's spend fields are never cleared, its
\* spend_height never decreases, and a commit that writes them again at
\* the same height writes the same triple.
C6_SpendNeverCleared ==
    [][\A r \in db.coins :
          r.spend_txhash # NULL =>
             /\ SameRow(db'.coins, r) # {}
             /\ \A x \in SameRow(db'.coins, r) :
                   /\ x.spend_txhash # NULL
                   /\ x.spend_height >= r.spend_height
                   /\ x.spend_height = r.spend_height => x = r]_vars

\* C6 witness: a second commit has written the spend fields of a row.
C6_Witness ==
    /\ Len(chain) >= 2
    /\ chain[1] = BlkReward /\ chain[2] = BlkPay
    /\ \E r \in db.coins :
          /\ CoinID(r.create_txhash, r.create_index) = ProposerReward(0)
          /\ r.spend_txhash = 1 /\ r.spend_height = 1
          /\ RowKey(r) \in DOMAIN spend_writes
          /\ spend_writes[RowKey(r)] = 2

\* The positions of a pass between starting a height and its commit.
InHeight ==
    {"stakes", "begin", "ins_coins", "upd_spends", "ins_head", "ins_stakes",
     "ins_txvars", "commit"}

\* C7: while a height is being processed the committed store is what it
\* was when the height was started; a failing step leaves it so, closes
\* the transaction and ends the pass in the loop's sleep (the task goes
\* on); and the pass after it works from max(height) of the store.
C7_FailedHeightLeavesNothing ==
    /\ [](task.pc \in InHeight => db = db_before)
    /\ [][(task.pc \in Fallible /\ task'.result = "err") =>
             /\ db' = db
             /\ task.pc \in InHeight => db' = db_before
             /\ txn' = NoTxn
             /\ task'.pc = "sleep"]_vars
    /\ [](task.pc = "snap" => task.our_highest = MaxHeightQuery(db))

\* C7 witness: a pass failed after two heights were committed, with the
\* node's tip not yet ingested.
C7_Witness ==
    /\ task.result = "err"
    /\ task.pc = "sleep"
    /\ Heights(db) = {0, 1}
    /\ Tip = 2

\* C8: once the node is stable (its tip stays, no call fails), the store
\* eventually holds the tip: max_height() = T.
C8_CatchesUp ==
    stable ~> (Tip \in Heights(db) /\ MaxHeightQuery(db) = Tip)

\* C8 witness: the tip is in the store after a stable node was reached
\* with the store behind it.
C8_Witness ==
    /\ stable
    /\ Tip = MaxTip
    /\ Tip \in Heights(db)
    /\ task.pc = "fetch"
    /\ task.our_highest < Tip

\* The heights of committed blocks that hold transaction t.
HeightsOfTx(t) ==
    {h \in Heights(db) :
        \E i \in 1..Len(chain[h + 1].transactions) :
            chain[h + 1].transactions[i].hash = t}

\* C9 as stated: iter() on the query query_coins() returns yields every
\* row of the coin table, and on a store without coins yields nothing,
\* without aborting.
C9_EmptyQueryYieldsAll ==
    [][(rd' # rd /\ rd'.op = "iter" /\ rd'.query = NewQuery) =>
          /\ rd'.status = "ok"
          /\ rd'.rows = db.coins]_vars

\* C10 as stated: txhash_to_height(t) is Some(h) for a transaction of the
\* block committed at h, and None for a hash in no committed block.
C10_TxhashToHeight ==
    [][(rd' # rd /\ rd'.op = "txhash_to_height") =>
          /\ \A h \in HeightsOfTx(rd'.txhash) :
                rd'.status = "ok" /\ rd'.height = h
          /\ HeightsOfTx(rd'.txhash) = {} => rd'.height = NULL]_vars

\* C10 witness: on a chain of valid blocks, tx 6 of the block committed at
\* height 2 spends only the swap output that the same block created and
\* the snapshot no longer holds; the lookup of tx 6 finds nothing.
C10_Witness ==
    /\ chain = <<BlkReward, BlkPay, BlkSwapSpent>>
    /\ Heights(db) = {0, 1, 2}
    /\ rd.op = "txhash_to_height"
    /\ rd.txhash = 6
    /\ rd.status = "ok"
    /\ rd.height = NULL

(***************************************************************************)
(* balance_at while ingestion commits: each fold of balance_at is an       *)
(* iter() of its own, on its own connection and outside any transaction,   *)
(* so a commit can fall between the two store reads of one call.           *)
(***************************************************************************)
\* balance_at(height) up to its first store read, for a height that is not
\* above the greatest committed height.  The heights are at most the tip,
\* so every query parameter binds.
BalBegin ==
    /\ bal.status # "reading"
    /\ db.headvars # {}
    /\ \E height \in 0..MaxProbe :
          /\ height <= MaxHeightQuery(db)
          /\ LET q     == tracker.query
                 cache == tracker.cache
                 next  == NextEntry(cache, height)
                 prev  == PrevEntry(cache, height)
                 from  == Branch(cache, height)
             IN  bal' =
                    IF height \in DOMAIN cache
                    THEN [height |-> height, status |-> "ok",
                          value |-> cache[height], from |-> "hit"]
                    ELSE IF DOMAIN cache = {}
                    THEN [height |-> height, status |-> "reading",
                          value |-> UnspentAt(q, db.coins, height),
                          from |-> "scratch"]
                    ELSE [height |-> height, status |-> "reading",
                          value |-> IF from = "next"
                                    THEN CreatedIn(q, db.coins, height,
                                                   next.height)
                                    ELSE CreatedIn(q, db.coins, prev.height,
                                                   height),
                          from |-> from]
    /\ UNCHANGED <<chain, stable, db, txn, task, spend_writes, db_before, rd,
                   tracker, hostVars>>

\* The second store read of the call, the insert and the return.
BalEnd ==
    /\ bal.status = "reading"
    /\ LET q      == tracker.query
           cache  == tracker.cache
           height == bal.height
           next   == NextEntry(cache, height)
           prev   == PrevEntry(cache, height)
       IN  IF bal.from = "scratch"
           THEN LET result == bal.value + SpentAfter(q, db.coins, height)
                IN  /\ bal' = [height |-> height, status |-> "ok",
                               value |-> result, from |-> "scratch"]
                    /\ tracker' = [tracker EXCEPT !.cache =
                                      CacheInsert(@, height, result)]
           ELSE IF bal.from = "next"
           THEN Memoize(height, "next",
                        next.balance
                        - AsU128(bal.value
                                 - SpentIn(q, db.coins, height, next.height)),
                        prev.balance, next.balance)
           ELSE Memoize(height, "prev",
                        prev.balance
                        + AsU128(bal.value
                                 - SpentIn(q, db.coins, prev.height, height)),
                        prev.balance, next.balance)
    /\ UNCHANGED <<chain, stable, db, txn, task, spend_writes, db_before, rd,
                   hostVars>>

\* One caller of a tracker alongside the ingestion task.
SpecConc ==
    /\ Init
    /\ [][
          \/ Ingest
          \/ NodeAdvance
          \/ BalBegin
          \/ BalEnd
         ]_vars

\* C11 as stated: while ingestion commits, a call balance_at(h) for a
\* height h not above the greatest committed height returns the sum of
\* value over the matching coins alive at h, whatever commits fall between
\* its store reads.
C11_ConcurrentBalanceExact ==
    [][(bal' # bal /\ bal'.status = "ok") =>
          bal'.value = AliveSum(tracker.query, db'.coins, bal'.height)]_vars

\* C11 witness: on a chain of valid blocks the commit of height 1, which
\* spends the reward coin of height 0, fell between the two reads of
\* balance_at(0): the coin was counted as unspent and as spent above 0.
C11_Witness ==
    /\ chain = <<BlkReward, BlkPay>>
    /\ Heights(db) = {0, 1}
    /\ bal = [height |-> 0, status |-> "ok", value |-> 6, from |-> "scratch"]
    /\ AliveSum(tracker.query, db.coins, 0) = 3
    /\ tracker.cache = CacheInsert(NoCache, 0, 6)

(***************************************************************************)
(* Ingestion of blocks with melswap transactions.                          *)
(***************************************************************************)
\* Whether the block holds a LiqWithdraw whose range end does not fit a u8.
WithdrawOverflows(blk) ==
    \E i \in 1..Len(blk.transactions) :
        /\ blk.transactions[i].kind = "LiqWithdraw"
        /\ WithdrawEnd(blk.transactions[i]) > U8_MOD - 1

\* tx.outputs.len() as u8 + 1 where overflow is checked: the task panics
\* while it derives the coins of the height, and runs no further.
FetchPanics ==
    /\ task.pc = "fetch"
    /\ task.height \in HeightRange(task.our_highest, task.their_highest)
    /\ WithdrawOverflows(chain[task.height + 1])
    /\ task' = [task EXCEPT !.pc = "panicked", !.result = "panic"]
    /\ UNCHANGED <<chain, stable, db, txn, spend_writes, db_before, rd, balVars,
                   hostVars>>

\* Chains of melswap blocks.
MelswapChains ==
    UNION {[1..n -> MelswapMenu] : n \in 1..(MaxSwapTip + 1)}

\* The indexer on a fresh store against a node that serves such a chain.
InitMelswap ==
    /\ chain \in MelswapChains
    /\ stable = FALSE
    /\ db = EmptyDb
    /\ txn = NoTxn
    /\ task = IdleTask("start", "none")
    /\ spend_writes = [k \in {} |-> 0]
    /\ db_before = EmptyDb
    /\ rd = NoRead
    /\ tracker = [query |-> NewQuery, cache |-> NoCache]
    /\ bal = NoCall
    /\ pool = PoolOpen
    /\ mutex = "free"
    /\ callers = [c \in Callers |-> NotCalling]
    /\ handle = LiveHandle
    /\ calls = << >>

SpecMelswap ==
    /\ InitMelswap
    /\ [][
          \/ Ingest
          \/ StepFails
          \/ FetchPanics
         ]_vars

\* The transactions of kind `kinds` in the block committed at height h.
TxsOfKind(h, kinds) ==
    {chain[h + 1].transactions[i] : i \in
        {j \in 1..Len(chain[h + 1].transactions) :
            chain[h + 1].transactions[j].kind \in kinds}}

\* The committed rows of coin (tx.hash, i) created at height h.
RowsAt(tx, i, h) ==
    {r \in RowsOf(db.coins, CoinID(tx.hash, i)) : r.create_height = h}

\* Whether the row of (tx.hash, i, h) exists exactly when the snapshot of
\* the block at h holds the coin, and then carries the snapshot's payload.
FromSnapshot(tx, i, h) ==
    LET coin == GetCoin(chain[h + 1], CoinID(tx.hash, i))
    IN  /\ (RowsAt(tx, i, h) # {}) <=> (coin # NoCoin)
        /\ \A r \in RowsAt(tx, i, h) :
              r.value = coin.value /\ r.denom = coin.denom

\* Whether output i of tx is stored at h as the transaction declares it.
AsDeclared(tx, i, h) ==
    /\ RowsAt(tx, i, h) # {}
    /\ \A r \in RowsAt(tx, i, h) :
          /\ r.value = tx.outputs[i + 1].value
          /\ r.denom = tx.outputs[i + 1].denom

\* C12: for a Swap (index 0) and a LiqDeposit (indices 0 and 1) in the
\* block committed at h, the row of a covered index exists iff the
\* snapshot pinned at h holds the coin and then has the snapshot's payload;
\* the outputs at the other indices are stored as declared.
C12_SwapDepositFromSnapshot ==
    \A h \in Heights(db) :
        \A tx \in TxsOfKind(h, {"Swap", "LiqDeposit"}) :
            LET covered == IF tx.kind = "Swap" THEN {0} ELSE {0, 1}
            IN  /\ \A i \in covered : FromSnapshot(tx, i, h)
                /\ \A i \in (0..(Len(tx.outputs) - 1)) \ covered :
                      AsDeclared(tx, i, h)

\* C12 witness: a committed deposit whose output 0 is stored as the
\* snapshot's liquidity token, whose output 1 has no row and whose output
\* 2 is stored as declared, after a committed swap whose output 0 has the
\* snapshot's denom and not the declared one.
C12_Witness ==
    /\ chain = <<BlkSwap, BlkDeposit>>
    /\ Heights(db) = {0, 1}
    /\ \E r \in db.coins :
          /\ RowKey(r) = [txhash |-> 4, index |-> 0, height |-> 0]
          /\ r.denom = "SYM" /\ r.value = 2
    /\ \E r \in db.coins :
          /\ RowKey(r) = [txhash |-> 8, index |-> 0, height |-> 1]
          /\ r.denom = "LIQ" /\ r.value = 2
    /\ RowsOf(db.coins, CoinID(8, 1)) = {}
    /\ \E r \in db.coins :
          /\ RowKey(r) = [txhash |-> 8, index |-> 2, height |-> 1]
          /\ r.denom = "MEL" /\ r.value = 1

\* C13 as stated: for a LiqWithdraw with n declared outputs in the block
\* committed at h, the row of every index in 0..=n exists iff the snapshot
\* holds the coin, with the snapshot's payload, and no row of the
\* transaction has an index above n.
C13_WithdrawFromSnapshot ==
    \A h \in Heights(db) :
        \A tx \in TxsOfKind(h, {"LiqWithdraw"}) :
            /\ \A i \in 0..Len(tx.outputs) : FromSnapshot(tx, i, h)
            /\ \A r \in db.coins :
                  (r.create_txhash = tx.hash /\ r.create_height = h) =>
                      r.create_index <= Len(tx.outputs)

\* C13 witness: the withdrawal with as many outputs as an index can count
\* is committed with its output 0 as declared, where the snapshot holds
\* another coin for it, and with rows for outputs the snapshot lacks.
C13_Witness ==
    /\ chain[1] = BlkWithdrawFull
    /\ 0 \in Heights(db)
    /\ \E r \in db.coins :
          /\ RowKey(r) = [txhash |-> 20, index |-> 0, height |-> 0]
          /\ r.denom = "LIQ" /\ r.value = 1
    /\ GetCoin(chain[1], CoinID(20, 0)) = CoinData(2, "MEL")
    /\ RowsOf(db.coins, CoinID(20, 1)) # {}
    /\ GetCoin(chain[1], CoinID(20, 1)) = NoCoin

(***************************************************************************)
(* A fresh tracker probed at distinct heights, the probes remembered.      *)
(***************************************************************************)
\* The heights probed so far.
Probed == {calls[i].height : i \in 1..Len(calls)}

\* The caller's next balance_at, at a height not probed before; at most
\* three probes.
Probe ==
    /\ Len(calls) < 3
    /\ \E height \in (0..MaxProbe) \ Probed :
          /\ BalanceAtHeight(height)
          /\ calls' = Append(calls, [height |-> height,
                                     status |-> bal'.status])
    /\ UNCHANGED <<chain, stable, db, txn, task, spend_writes, db_before, rd,
                   pool, handle, mutex,
                   callers>>

SpecProbe ==
    /\ InitBal
    /\ [][
          \/ Probe
         ]_vars

\* Three probes were made in the order low, high, middle.
LowHighMiddle ==
    /\ Len(calls) = 3
    /\ calls[1].height < calls[3].height
    /\ calls[3].height < calls[2].height

\* C14 as stated: after probes at low, high, middle on a store at rest,
\* each of which returned, the cache holds all three heights, each with the
\* from-scratch balance.
C14_AllThreeCached ==
    (LowHighMiddle /\ \A i \in 1..3 : calls[i].status = "ok") =>
        /\ Probed \subseteq DOMAIN tracker.cache
        /\ \A h \in Probed :
              tracker.cache[h] = FromScratch(tracker.query, db.coins, h)

\* C14 amended: after those probes every key of the cache is a probed
\* height with the from-scratch balance of that height; low is a key; high
\* is a key iff its call returned a balance other than low's and other
\* than 0 (no key lies above it); middle is a key iff its call returned a
\* balance other than low's and other than high's cached one, or than 0
\* where high is not a key.
C14_ProbedKeysCached ==
    LowHighMiddle =>
        LET q        == tracker.query
            low      == calls[1].height
            high     == calls[2].height
            middle   == calls[3].height
            B(h)     == FromScratch(q, db.coins, h)
            high_in  == /\ calls[2].status = "ok"
                        /\ B(high) # B(low)
                        /\ B(high) # 0
            middle_in == /\ calls[3].status = "ok"
                         /\ B(middle) # B(low)
                         /\ B(middle) # (IF high_in THEN B(high) ELSE 0)
        IN  /\ DOMAIN tracker.cache =
                  {low} \cup (IF high_in THEN {high} ELSE {})
                        \cup (IF middle_in THEN {middle} ELSE {})
            /\ \A h \in DOMAIN tracker.cache : tracker.cache[h] = B(h)

\* C14 witness: all three calls returned, the balance at high is the one
\* at low, and the cache holds low and middle but not high.
C14_Witness ==
    /\ LowHighMiddle
    /\ \A i \in 1..3 : calls[i].status = "ok"
    /\ FromScratch(tracker.query, db.coins, calls[2].height)
          = FromScratch(tracker.query, db.coins, calls[1].height)
    /\ DOMAIN tracker.cache = {calls[1].height, calls[3].height}

(***************************************************************************)
(* The connection pool (pool.rs) and the scopes that hold a connection.    *)
(***************************************************************************)
\* The scopes that call get_conn: the ingestion task (its our_highest query
\* and its transaction), two query iterators of readers, and the
\* blkidx-optimize thread.
Holders == {"ingest", "iter_a", "iter_b", "optimize"}

\* The holders whose scope is the generator of CoinQuery::iter.
Iterators == {"iter_a", "iter_b"}

\* A drop that does not give the connection back.
PushLost(queue, conn) == queue

\* self.queue.push(conn) on the unbounded queue
Push(queue, conn) == Append(queue, conn)

\* Pool::get_conn by holder h: self.queue.pop(), or a newly opened
\* connection when the queue is empty, wrapped for h.
GetConn ==
    /\ \E h \in Holders \ DOMAIN pool.held :
          LET fresh == pool.queue = << >>
              conn  == IF fresh THEN pool.opened + 1 ELSE Head(pool.queue)
          IN  pool' = [pool EXCEPT
                          !.queue  = IF fresh THEN << >> ELSE Tail(@),
                          !.opened = IF fresh THEN @ + 1 ELSE @,
                          !.held   = MapInsert(@, h, conn)]
    /\ UNCHANGED <<chain, stable, db, txn, task, spend_writes, db_before, rd,
                   balVars, handle, calls, mutex,
                   callers>>

\* Drop for WrappedConnection: queue.push(self.inner.take().unwrap())
DropConn(h, how) ==
    pool' = [pool EXCEPT
                !.queue = Push(@, pool.held[h]),
                !.held  = MapRemove(@, h),
                !.last  = [holder |-> h, how |-> how, conn |-> pool.held[h]]]

\* The holder's scope ends with a normal return.
ScopeReturns ==
    /\ \E h \in DOMAIN pool.held : DropConn(h, "return")
    /\ UNCHANGED <<chain, stable, db, txn, task, spend_writes, db_before, rd,
                   balVars, handle, calls, mutex,
                   callers>>

\* The holder's scope ends with an error return or a panic that unwinds.
ScopeFails ==
    /\ \E h \in DOMAIN pool.held : DropConn(h, "error")
    /\ UNCHANGED <<chain, stable, db, txn, task, spend_writes, db_before, rd,
                   balVars, handle, calls, mutex,
                   callers>>

\* A partly consumed iterator is dropped: the generator, and with it the
\* connection it holds across its yields, is dropped.
IterAbandoned ==
    /\ \E h \in Iterators \cap DOMAIN pool.held : DropConn(h, "abandon")
    /\ UNCHANGED <<chain, stable, db, txn, task, spend_writes, db_before, rd,
                   balVars, handle, calls, mutex,
                   callers>>

SpecPool ==
    /\ Init
    /\ [][
          \/ GetConn
          \/ ScopeReturns
          \/ ScopeFails
          \/ IterAbandoned
         ]_vars

\* How many times connection c is in the queue, and how many holders
\* hold it.
InQueue(p, c) == Cardinality({i \in 1..Len(p.queue) : p.queue[i] = c})

HeldBy(p, c) == {h \in DOMAIN p.held : p.held[h] = c}

\* C15: every connection the pool has opened is either once in the queue
\* or held by exactly one holder, never both; and when a holder's scope
\* ends, however it ends, its connection is in the queue.
C15_ConnectionsExclusive ==
    /\ [](\A c \in 1..pool.opened :
             InQueue(pool, c) + Cardinality(HeldBy(pool, c)) = 1)
    /\ [][\A h \in DOMAIN pool.held :
             h \notin DOMAIN pool'.held =>
                 /\ InQueue(pool', pool.held[h]) = 1
                 /\ HeldBy(pool', pool.held[h]) = {}]_vars

\* C15 witness: with three connections opened, an iterator was abandoned
\* while the ingestion task and the other iterator held theirs; its
\* connection is in the queue.
C15_Witness ==
    /\ pool.opened = 3
    /\ pool.last.how = "abandon"
    /\ {"ingest"} \cup (Iterators \ {pool.last.holder}) \subseteq DOMAIN pool.held
    /\ pool.last.holder \notin DOMAIN pool.held
    /\ InQueue(pool, pool.last.conn) = 1

(***************************************************************************)
(* Claims about the order of commits and about committing a height again.  *)
(***************************************************************************)
\* The step that commits the transaction of task.height.
CommitStep == task.pc = "commit" /\ task'.pc = "fetch"

\* C16 as stated: every commit is for a height greater than that of every
\* earlier commit (the heights of HeightInfo are those committed so far).
C16_CommitsStrictlyAscending ==
    [][CommitStep => \A g \in Heights(db) : task.height > g]_vars

\* C16 amended: a commit is never for a height below that of an earlier
\* commit, and the only height committed again is the greatest stored one,
\* as the first height of a pass.
C16_CommitsNeverDescend ==
    [][CommitStep =>
          /\ \A g \in Heights(db) : task.height >= g
          /\ task.height \in Heights(db) =>
                 task.height = task.our_highest]_vars

\* C16 witness: a pass that started with heights 0 and 1 stored has
\* committed height 1 again and goes on to height 2.
C16_Witness ==
    /\ task.pc = "fetch"
    /\ task.our_highest = 1
    /\ task.height = 2
    /\ Heights(db_before) = {0, 1}
    /\ Heights(db) = {0, 1}

\* C17: committing a height that HeightInfo already holds, for the same
\* block, leaves the coins, HeightInfo and TxVar tables as they were.
C17_ReingestIsNoOp ==
    [][(CommitStep /\ task.height \in Heights(db)) =>
          /\ db'.coins = db.coins
          /\ db'.headvars = db.headvars
          /\ db'.txvars = db.txvars]_vars

\* C17 witness: the greatest stored height, whose block creates coins and
\* spends a coin of an earlier height, was committed a second time.
C17_Witness ==
    /\ task.pc = "fetch"
    /\ task.our_highest >= 1
    /\ task.height = task.our_highest + 1
    /\ task.our_highest \in Heights(db_before)
    /\ db = db_before
    /\ \E r \in db.coins :
          /\ r.spend_height = task.our_highest
          /\ r.create_height < task.our_highest
          /\ spend_writes[RowKey(r)] = 2
    /\ \E r \in db.coins : r.create_height = task.our_highest

(***************************************************************************)
(* Dropping the Indexer handle.  The handle owns _task; dropping a smol    *)
(* Task cancels it: the future is not polled again, and a poll that is     *)
(* running when the handle is dropped runs on until it next suspends.      *)
(***************************************************************************)
\* A task that is never cancelled.
AwaitPointNever(t) == FALSE

\* Whether the task's next step suspends: latest_snapshot().await,
\* get_older(height).await of a height of the range, get_stakers_raw(..)
\* .await when the stakes hash changed, and the timer of indexer_loop.
\* Between conn.transaction() and conn.commit() there is no await.
AwaitPoint(t) ==
    \/ t.pc \in {"snap", "sleep"}
    \/ /\ t.pc = "fetch"
       /\ t.height \in HeightRange(t.our_highest, t.their_highest)
    \/ /\ t.pc = "stakes"
       /\ t.last_stakes # chain[t.height + 1].stakes_hash

\* The steps of the task go on while the handle lives and, after it is
\* dropped, up to the next await point.
RunsOn == handle.state = "live" \/ ~AwaitPoint(task)

\* drop(indexer): the handle is gone; `at` keeps where the task and the
\* store were.
DropHandle ==
    /\ handle.state = "live"
    /\ handle' = [state |-> "dropped",
                  at |-> [pc |-> task.pc, height |-> task.height,
                          heights |-> Heights(db)]]
    /\ UNCHANGED <<chain, stable, db, txn, task, spend_writes, db_before, rd,
                   balVars, pool, calls, mutex,
                   callers>>

\* The cancelled task's future is dropped at its await point, with
\* whatever it owns; a transaction it owned would be rolled back.
Cancel ==
    /\ handle.state = "dropped"
    /\ task.pc \notin {"cancelled", "panicked"}
    /\ AwaitPoint(task)
    /\ db' = Rollback(db, IF txn.open THEN txn.state ELSE db)
    /\ txn' = NoTxn
    /\ task' = [task EXCEPT !.pc = "cancelled"]
    /\ UNCHANGED <<chain, stable, spend_writes, db_before, rd, balVars,
                   hostVars>>

TaskStep == RunsOn /\ Ingest

TaskStepFails == RunsOn /\ StepFails

SpecCancel ==
    /\ Init
    /\ [][
          \/ TaskStep
          \/ TaskStepFails
          \/ NodeAdvance
          \/ DropHandle
          \/ Cancel
         ]_vars

\* C18 as stated: once the handle is dropped no height is committed, and
\* the height whose transaction was in flight leaves nothing in the
\* committed store.
C18_NoCommitAfterDrop ==
    /\ [][handle.state = "dropped" => ~CommitStep]_vars
    /\ [](handle.state = "dropped" =>
             /\ Heights(db) = handle.at.heights
             /\ \A r \in db.coins : r.create_height \in handle.at.heights)

\* C18 amended: once the handle is dropped the only height the task may
\* still commit is the one it was processing, past its fetch, when the
\* handle was dropped; the store gains no other height; and the cancelled
\* task leaves no transaction open.
C18_OnlyInFlightCommits ==
    /\ [][(handle.state = "dropped" /\ CommitStep) =>
             /\ task.height = handle.at.height
             /\ handle.at.pc \in InHeight]_vars
    /\ [](handle.state = "dropped" =>
             Heights(db) \ handle.at.heights \subseteq {handle.at.height})
    /\ [](task.pc = "cancelled" => ~txn.open /\ handle.state = "dropped")

\* C18 witness: the handle was dropped while the transaction of height 1
\* had its coin rows written and was not committed; the task committed
\* height 1 and was cancelled at the await that follows.
C18_Witness ==
    /\ handle.state = "dropped"
    /\ handle.at.pc = "upd_spends"
    /\ handle.at.height = 1
    /\ handle.at.heights = {0}
    /\ task.pc = "cancelled"
    /\ Heights(db) = {0, 1}
    /\ \E r \in db.coins : r.create_height = 1

(***************************************************************************)
(* Claims about a miss on a non-empty cache: what is inserted, and which   *)
(* neighbour the balance is computed from.                                 *)
(***************************************************************************)
\* The cached heights next to h that exist: the greatest key below h and
\* the smallest key above h.
HasPrev(cache, h) == \E k \in DOMAIN cache : k < h

HasNext(cache, h) == \E k \in DOMAIN cache : k > h

Neighbours(cache, h) ==
    (IF HasPrev(cache, h) THEN {PrevEntry(cache, h).height} ELSE {})
    \cup (IF HasNext(cache, h) THEN {NextEntry(cache, h).height} ELSE {})

\* The step is a call that missed a non-empty cache and took a branch.
DeltaCall == bal' # bal /\ bal'.from \in {"next", "prev"}

\* C19 as stated: a call that misses a non-empty cache and returns inserts
\* its balance iff the balance differs from the cached balance of every
\* neighbour that exists; an absent neighbour does not matter.
C19_InsertIffDiffersFromNeighbours ==
    [][(DeltaCall /\ bal'.status = "ok") =>
          ((bal'.height \in DOMAIN tracker'.cache) <=>
              \A k \in Neighbours(tracker.cache, bal'.height) :
                  bal'.value # tracker.cache[k])]_vars

\* C19 witness: on a chain of valid blocks the MEL balance is 2 at height 1
\* and 0 at height 2; with 1 the only key, balance_at(2) returned 0, which
\* differs from the balance cached at 1, and inserted nothing.
C19_Witness ==
    /\ chain = <<BlkReward, BlkPay, BlkSwap>>
    /\ tracker.query = Denom(NewQuery, "MEL")
    /\ tracker.cache = CacheInsert(NoCache, 1, 2)
    /\ bal = [height |-> 2, status |-> "ok", value |-> 0, from |-> "prev"]

\* A call at a height anywhere in the u64 range: the lowest ones, the ones
\* around i64::MAX and one near u64::MAX.
BalanceAtWide ==
    /\ \E height \in {0, 1, I64_MAX, I64_MAX + 1, U64_MAX - 1} :
          BalanceAtHeight(height)
    /\ UNCHANGED <<chain, stable, db, txn, task, spend_writes, db_before, rd,
                   hostVars>>

SpecWide ==
    /\ InitBal
    /\ [][
          \/ BalanceAtWide
         ]_vars

\* C20 as stated: a call that misses a non-empty cache computes from next
\* iff next exists and either prev is absent or next - h < h - prev, and
\* from prev otherwise, for every height of the u64 range.
C20_NearestExistingNeighbour ==
    [][DeltaCall =>
          LET h     == bal'.height
              cache == tracker.cache
          IN  (bal'.from = "next") <=>
                 /\ HasNext(cache, h)
                 /\ \/ ~HasPrev(cache, h)
                    \/ NextEntry(cache, h).height - h
                          < h - PrevEntry(cache, h).height]_vars

\* C20 witness: with height 0 the only key, a call at a height of the
\* upper half of the range took the branch of the absent next neighbour,
\* u64::MAX, and aborted.
C20_Witness ==
    /\ DOMAIN tracker.cache = {0}
    /\ bal = Aborted(U64_MAX - 1, "next")
    /\ ~HasNext(tracker.cache, bal.height)

(***************************************************************************)
(* Claims about the arithmetic of the delta step.                          *)
(***************************************************************************)
\* The signed interval delta balance_diff returns to the branch a miss on
\* a non-empty cache takes (balance.rs:89, :94).
BranchDiff(q, coins, cache, height) ==
    IF Branch(cache, height) = "next"
    THEN BalanceDiff(q, coins, height, NextEntry(cache, height).height)
    ELSE BalanceDiff(q, coins, PrevEntry(cache, height).height, height)

\* The cached balance of the neighbour plus or minus the signed delta, in
\* unbounded integers.
BranchBalance(q, coins, cache, height) ==
    IF Branch(cache, height) = "next"
    THEN NextEntry(cache, height).balance - BranchDiff(q, coins, cache, height)
    ELSE PrevEntry(cache, height).balance + BranchDiff(q, coins, cache, height)

\* C21 as stated: when the signed interval delta is negative and the true
\* balance is a non-negative u128, the delta step returns the neighbour's
\* cached balance minus |diff| (from prev) or plus |diff| (from next); no
\* wraparound, saturation or abort changes the result.
C21_NegativeDeltaExact ==
    [][LET q      == tracker.query
           cache  == tracker.cache
           height == bal'.height
       IN  (/\ DeltaCall
            /\ Binds(BoundParams(bal'.from, height,
                                 NextEntry(cache, height).height,
                                 PrevEntry(cache, height).height))
            /\ BranchDiff(q, db.coins, cache, height) < 0
            /\ Fits(BranchBalance(q, db.coins, cache, height)))
           => /\ bal'.status = "ok"
              /\ bal'.value = BranchBalance(q, db.coins, cache, height)]_vars

\* C21 witness: with the MEL balance 3 cached at height 0, balance_at(1)
\* computed from prev across an interval whose delta is -1 and ended
\* without a value, although the true balance at height 1 is 2.
C21_Witness ==
    /\ chain = <<BlkReward, BlkPay>>
    /\ tracker.query = Denom(NewQuery, "MEL")
    /\ tracker.cache = CacheInsert(NoCache, 0, 3)
    /\ BranchDiff(tracker.query, db.coins, tracker.cache, 1) = -1
    /\ AliveSum(tracker.query, db.coins, 1) = 2
    /\ bal = Aborted(1, "prev")

(***************************************************************************)
(* A tracker probed while ingestion is still catching up.  Each call is    *)
(* taken whole here, so that no commit falls between its store reads.      *)
(***************************************************************************)
\* A pass of indexer_loop_once as a reader of the committed store sees it:
\* it starts at the greatest stored height and commits whole heights in
\* ascending order up to the node's tip, or up to the height before the
\* one whose step failed.
PassCommits ==
    /\ \E to \in HeightRange(MaxHeightQuery(db), Tip) :
          /\ to \notin Heights(db)
          /\ db' = PassFrom(db, SubSeq(chain, 1, to + 1),
                            MaxHeightQuery(db), NULL)
    /\ UNCHANGED <<chain, stable, txn, task, spend_writes, db_before, rd,
                   balVars, hostVars>>

\* balance_at at any height, ingested or not; calls notes the first height
\* that was probed while above the greatest committed height (or while
\* nothing was committed).
BalanceAtLive ==
    /\ \E height \in 0..MaxProbe :
          /\ BalanceAtHeight(height)
          /\ calls' = IF /\ db.headvars = {} \/ height > MaxHeightQuery(db)
                         /\ calls = << >>
                      THEN <<[height |-> height, status |-> "ahead"]>>
                      ELSE calls
    /\ UNCHANGED <<chain, stable, db, txn, task, spend_writes, db_before, rd,
                   pool, handle, mutex,
                   callers>>

\* A fresh store, a new tracker, and a node whose chain is made of reward
\* blocks and of payments that spend the reward, with heights
\* 0..MaxRaceTip.
InitFresh ==
    /\ chain \in UNION {[1..n -> {BlkReward, BlkPay}]
                           : n \in 1..(MaxRaceTip + 1)}
    /\ stable = TRUE
    /\ db = EmptyDb
    /\ txn = NoTxn
    /\ task = IdleTask("start", "none")
    /\ spend_writes = [k \in {} |-> 0]
    /\ db_before = EmptyDb
    /\ rd = NoRead
    /\ tracker = [query |-> NewQuery, cache |-> NoCache]
    /\ bal = NoCall
    /\ pool = PoolOpen
    /\ mutex = "free"
    /\ callers = [c \in Callers |-> NotCalling]
    /\ handle = LiveHandle
    /\ calls = << >>

SpecAhead ==
    /\ InitFresh
    /\ [][
          \/ PassCommits
          \/ BalanceAtLive
         ]_vars

\* The height noted as probed while above the greatest committed height.
ProbedAhead ==
    {calls[i].height : i \in {j \in 1..Len(calls) : calls[j].status = "ahead"}}

\* C22 as stated: a call balance_at(h) made after ingestion has committed
\* every height up to h, on a tracker that was probed at h while h was
\* above the greatest committed height, returns the sum of value over the
\* matching coins alive at h in the committed store.
C22_FreshAfterIngestion ==
    [][(/\ bal' # bal
        /\ bal'.status = "ok"
        /\ bal'.height \in ProbedAhead
        /\ bal'.height \in Heights(db))
       => bal'.value = AliveSum(tracker.query, db.coins, bal'.height)]_vars

\* C22 witness: height 1 was probed before it was ingested, heights 0 and 1
\* are now committed, and the call at height 1 was answered from the cache
\* with the balance at height 0, which is not the balance at height 1.
C22_Witness ==
    /\ 1 \in ProbedAhead
    /\ {0, 1} \subseteq Heights(db)
    /\ bal.height = 1 /\ bal.status = "ok" /\ bal.from = "hit"
    /\ bal.value = AliveSum(tracker.query, db.coins, 0)
    /\ bal.value > 0
    /\ bal.value # AliveSum(tracker.query, db.coins, 1)

(***************************************************************************)
(* Concurrent callers of balance_at on one tracker, beside ingestion.      *)
(* Every lock() of the cache mutex, every store read and every drop of a   *)
(* MutexGuard is a step of its own.                                        *)
(***************************************************************************)
\* A guard that outlives the condition of the if at balance.rs:48 and is
\* held through its body.
GuardHeldInBody(stmt) == stmt # "if_cond"

\* Whether the MutexGuard temporary of self.cache.lock() is dropped where
\* the statement's lookup or insert ends: at the end of the if-let
\* statement (balance.rs:43-46), of the if condition (:48), of the insert
\* statements (:65, :98) and of the let statements (:70-77, :78-85).
DropsGuard(stmt) == stmt \in {"if_let", "if_cond", "insert", "let"}

\* self.cache.lock(): blocks until the mutex is free.
Lock(c) == mutex = "free" /\ mutex' = c

\* The end of the scope of the guard taken by statement stmt.
Release(c, stmt) ==
    /\ mutex = c
    /\ mutex' = IF DropsGuard(stmt) THEN "free" ELSE mutex

\* The call panics outside every critical section.
Abort(c) ==
    /\ bal' = Aborted(callers[c].height, callers[c].from)
    /\ callers' = [callers EXCEPT ![c] = NotCalling]

\* balance.rs:43: self.cache.lock().get(&height).copied(), for a height
\* that is not above the greatest committed height.
LockHit(c) ==
    /\ callers[c].pc = "idle"
    /\ db.headvars # {}
    /\ Lock(c)
    /\ \E height \in 0..MaxRaceTip :
          /\ height <= MaxHeightQuery(db)
          /\ callers' = [callers EXCEPT ![c] = [NotCalling EXCEPT
                         !.pc = "hit", !.height = height,
                         !.found = IF height \in DOMAIN tracker.cache
                                   THEN tracker.cache[height] ELSE NULL]]
    /\ UNCHANGED <<chain, stable, db, txn, task, spend_writes, db_before,
                   rd, pool, handle, calls, balVars>>

\* balance.rs:44-46: the direct hit returns; the guard goes with the if let.
UnlockHit(c) ==
    /\ callers[c].pc = "hit"
    /\ Release(c, "if_let")
    /\ IF callers[c].found # NULL
       THEN /\ bal' = [height |-> callers[c].height, status |-> "ok",
                       value |-> callers[c].found, from |-> "hit"]
            /\ callers' = [callers EXCEPT ![c] = NotCalling]
       ELSE /\ callers' = [callers EXCEPT ![c].pc = "miss"]
            /\ UNCHANGED bal
    /\ UNCHANGED <<chain, stable, db, txn, task, spend_writes, db_before,
                   rd, pool, handle, calls, tracker>>

\* balance.rs:48: self.cache.lock().is_empty()
LockEmpty(c) ==
    /\ callers[c].pc = "miss"
    /\ Lock(c)
    /\ callers' = [callers EXCEPT ![c] = [callers[c] EXCEPT
                   !.pc = "empty",
                   !.from = IF DOMAIN tracker.cache = {}
                            THEN "scratch" ELSE "delta"]]
    /\ UNCHANGED <<chain, stable, db, txn, task, spend_writes, db_before,
                   rd, pool, handle, calls, balVars>>

UnlockEmpty(c) ==
    /\ callers[c].pc = "empty"
    /\ Release(c, "if_cond")
    /\ callers' = [callers EXCEPT ![c] = [callers[c] EXCEPT
                   !.pc = IF callers[c].from = "scratch"
                          THEN "scratch1" ELSE "nbr_next"]]
    /\ UNCHANGED <<chain, stable, db, txn, task, spend_writes, db_before,
                   rd, pool, handle, calls, balVars>>

\* balance.rs:49-56: the first sum of the from-scratch branch.
ScratchFirst(c) ==
    /\ callers[c].pc = "scratch1"
    /\ IF ~Binds(BoundParams("scratch", callers[c].height, NULL, NULL))
       THEN Abort(c)
       ELSE /\ callers' = [callers EXCEPT ![c] = [callers[c] EXCEPT
                           !.pc = "scratch2",
                           !.acc = UnspentAt(tracker.query, db.coins,
                                             callers[c].height)]]
            /\ UNCHANGED bal
    /\ UNCHANGED <<chain, stable, db, txn, task, spend_writes, db_before,
                   rd, pool, handle, calls, tracker, mutex>>

\* balance.rs:57-64: the second sum.
ScratchSecond(c) ==
    /\ callers[c].pc = "scratch2"
    /\ callers' = [callers EXCEPT ![c] = [callers[c] EXCEPT
                   !.pc = "ins",
                   !.balance = callers[c].acc
                               + SpentAfter(tracker.query, db.coins,
                                            callers[c].height)]]
    /\ UNCHANGED <<chain, stable, db, txn, task, spend_writes, db_before,
                   rd, pool, handle, calls, balVars, mutex>>

\* balance.rs:65 and :98: self.cache.lock().insert(height, balance)
LockInsert(c) ==
    /\ callers[c].pc = "ins"
    /\ Lock(c)
    /\ tracker' = [tracker EXCEPT !.cache =
                      CacheInsert(@, callers[c].height, callers[c].balance)]
    /\ callers' = [callers EXCEPT ![c] = [callers[c] EXCEPT !.pc = "inserted"]]
    /\ UNCHANGED <<chain, stable, db, txn, task, spend_writes, db_before,
                   rd, pool, handle, calls, bal>>

\* balance.rs:66-67 and :101
UnlockInsert(c) ==
    /\ callers[c].pc = "inserted"
    /\ Release(c, "insert")
    /\ bal' = [height |-> callers[c].height, status |-> "ok",
               value |-> callers[c].balance, from |-> callers[c].from]
    /\ callers' = [callers EXCEPT ![c] = NotCalling]
    /\ UNCHANGED <<chain, stable, db, txn, task, spend_writes, db_before,
                   rd, pool, handle, calls, tracker>>

\* balance.rs:70-77
LockNext(c) ==
    /\ callers[c].pc = "nbr_next"
    /\ Lock(c)
    /\ callers' = [callers EXCEPT ![c] = [callers[c] EXCEPT
                   !.pc = "next",
                   !.next = NextEntry(tracker.cache, callers[c].height)]]
    /\ UNCHANGED <<chain, stable, db, txn, task, spend_writes, db_before,
                   rd, pool, handle, calls, balVars>>

UnlockNext(c) ==
    /\ callers[c].pc = "next"
    /\ Release(c, "let")
    /\ callers' = [callers EXCEPT ![c] = [callers[c] EXCEPT !.pc = "nbr_prev"]]
    /\ UNCHANGED <<chain, stable, db, txn, task, spend_writes, db_before,
                   rd, pool, handle, calls, balVars>>

\* balance.rs:78-85
LockPrev(c) ==
    /\ callers[c].pc = "nbr_prev"
    /\ Lock(c)
    /\ callers' = [callers EXCEPT ![c] = [callers[c] EXCEPT
                   !.pc = "prev",
                   !.prev = PrevEntry(tracker.cache, callers[c].height)]]
    /\ UNCHANGED <<chain, stable, db, txn, task, spend_writes, db_before,
                   rd, pool, handle, calls, balVars>>

\* balance.rs:86: the branch is chosen from the two copies.
UnlockPrev(c) ==
    /\ callers[c].pc = "prev"
    /\ Release(c, "let")
    /\ callers' = [callers EXCEPT ![c] = [callers[c] EXCEPT
                   !.pc = "diff1",
                   !.from = IF FromNext(callers[c].height,
                                        callers[c].next.height,
                                        callers[c].prev.height)
                            THEN "next" ELSE "prev"]]
    /\ UNCHANGED <<chain, stable, db, txn, task, spend_writes, db_before,
                   rd, pool, handle, calls, balVars>>

\* The arguments of balance_diff in the branch taken.  Where start + 1
\* (balance.rs:22, :28) does not fit a u64 it wraps to 0: start is then the
\* one that gives the same range.
DiffRange(r) ==
    LET start == IF r.from = "next" THEN r.height ELSE r.prev.height
    IN  [start |-> IF start = U64_MAX THEN -1 ELSE start,
         end   |-> IF r.from = "next" THEN r.next.height ELSE r.height,
         wraps |-> start = U64_MAX]

\* balance.rs:20-24: the first fold of balance_diff.  start + 1 that does
\* not fit a u64 panics in a build with overflow checks and wraps without.
DiffFirst(c) ==
    LET r == callers[c]
    IN  /\ r.pc = "diff1"
        /\ \/ /\ \/ DiffRange(r).wraps
                 \/ ~Binds({DiffRange(r).start + 1, DiffRange(r).end})
              /\ Abort(c)
           \/ /\ Binds({DiffRange(r).start + 1, DiffRange(r).end})
              /\ callers' = [callers EXCEPT ![c] = [r EXCEPT
                             !.pc = "diff2",
                             !.acc = CreatedIn(tracker.query, db.coins,
                                               DiffRange(r).start,
                                               DiffRange(r).end)]]
              /\ UNCHANGED bal
        /\ UNCHANGED <<chain, stable, db, txn, task, spend_writes, db_before,
                       rd, pool, handle, calls, tracker, mutex>>

\* balance.rs:25-30 and :90, :95-101: the second fold, the u128 arithmetic
\* and, where nothing is to be inserted, the return.
DiffSecond(c) ==
    LET r     == callers[c]
        diff  == r.acc - SpentIn(tracker.query, db.coins,
                                 DiffRange(r).start, DiffRange(r).end)
        exact == IF r.from = "next"
                 THEN r.next.balance - AsU128(diff)
                 ELSE r.prev.balance + AsU128(diff)
        balance == exact % U128_MOD
    IN  /\ r.pc = "diff2"
        /\ \/ /\ ~Fits(exact)
              /\ Abort(c)
           \/ IF balance # r.prev.balance /\ balance # r.next.balance
              THEN /\ callers' = [callers EXCEPT ![c].pc = "ins",
                                                 ![c].balance = balance]
                   /\ UNCHANGED bal
              ELSE /\ bal' = [height |-> r.height, status |-> "ok",
                              value |-> balance, from |-> r.from]
                   /\ callers' = [callers EXCEPT ![c] = NotCalling]
        /\ UNCHANGED <<chain, stable, db, txn, task, spend_writes, db_before,
                       rd, pool, handle, calls, tracker, mutex>>

SpecRace ==
    /\ InitFresh
    /\ [][
          \/ PassCommits
          \/ \E c \in Callers : LockHit(c)
          \/ \E c \in Callers : UnlockHit(c)
          \/ \E c \in Callers : LockEmpty(c)
          \/ \E c \in Callers : UnlockEmpty(c)
          \/ \E c \in Callers : ScratchFirst(c)
          \/ \E c \in Callers : ScratchSecond(c)
          \/ \E c \in Callers : LockInsert(c)
          \/ \E c \in Callers : UnlockInsert(c)
          \/ \E c \in Callers : LockNext(c)
          \/ \E c \in Callers : UnlockNext(c)
          \/ \E c \in Callers : LockPrev(c)
          \/ \E c \in Callers : UnlockPrev(c)
          \/ \E c \in Callers : DiffFirst(c)
          \/ \E c \in Callers : DiffSecond(c)
         ]_vars

\* The positions of a call at which a store query is running or about to.
StoreReadPcs == {"scratch1", "scratch2", "diff1", "diff2"}

\* The positions of a call inside a critical section, after its lookup or
\* insert.
LockedPcs == {"hit", "empty", "inserted", "next", "prev"}

\* C23 as stated: under every interleaving of concurrent balance_at calls
\* and ingestion commits, a key of the cache is never removed and the value
\* stored at a key never changes.
C23_CacheOnlyGrows ==
    [][\A h \in DOMAIN tracker.cache :
          /\ h \in DOMAIN tracker'.cache
          /\ tracker'.cache[h] = tracker.cache[h]]_vars

\* C23 witness: a call at height 0 returned and cached one balance, and the
\* insert of a concurrent call at height 0 has since put another balance
\* under that key.
C23_Witness ==
    /\ bal.status = "ok" /\ bal.height = 0 /\ bal.from = "scratch"
    /\ \E c \in Callers :
          /\ callers[c].pc = "inserted"
          /\ callers[c].height = 0
          /\ callers[c].from = "scratch"
          /\ callers[c].balance # bal.value
    /\ tracker.cache[0] # bal.value

\* C26: in every reachable state of concurrent balance_at calls, a caller
\* holds the cache mutex only inside one of its critical sections, just
\* after its map lookup or insert, and never while it runs a store query;
\* so whenever the mutex is held, the holder's next step frees it.
C26_NoStoreReadUnderMutex ==
    /\ mutex \in Callers \cup {"free"}
    /\ \A c \in Callers :
          /\ callers[c].pc \in StoreReadPcs => mutex # c
          /\ mutex = c <=> callers[c].pc \in LockedPcs

\* C26 witness: one caller is between the two sums of the from-scratch
\* branch while the other holds the mutex for its own lookup.
C26_Witness ==
    /\ callers["caller_a"].pc = "scratch2"
    /\ mutex = "caller_b"
    /\ callers["caller_b"].pc = "hit"

(***************************************************************************)
(* Claims about the staker list.                                           *)
(***************************************************************************)
\* The task passes the stakes statement of the height it is at.
StakesStep == task.pc = "stakes" /\ task'.pc = "begin"

\* The height is the first of its pass, or its block's stakes_hash is not
\* the one of the block of the iteration before.
StakesHashChanged(t) ==
    \/ t.height = FirstHeight(t.our_highest, t.their_highest)
    \/ chain[t.height + 1].stakes_hash # chain[t.height].stakes_hash

\* C24: within a pass the staker list is fetched at height h iff h is the
\* first height of the pass or the stakes_hash of block h differs from
\* that of the block of the previous iteration (otherwise the step holds
\* no list), and the insert statements of a height add staker rows only
\* where the list was fetched and the node returned one.
C24_StakesFetchedOnChange ==
    [][/\ StakesStep =>
             task'.stakes = IF StakesHashChanged(task)
                            THEN chain[task.height + 1].stakers
                            ELSE NoStakers
       /\ (txn.open /\ txn'.open /\ txn'.state.stakes # txn.state.stakes) =>
             /\ StakesHashChanged(task)
             /\ chain[task.height + 1].stakers.some
             /\ txn'.state.stakes
                   = txn.state.stakes \cup chain[task.height + 1].stakers.docs
       /\ (db'.stakes # db.stakes) => (task.pc = "commit" /\ db' = txn.state)
      ]_vars

\* C24 witness: at height 1, not the first of its pass, the block has the
\* stakes_hash of block 0 and a staker list the node would return; the
\* step skipped the fetch, and the rows of height 0 are in the store.
C24_Witness ==
    /\ task.pc = "begin"
    /\ task.height = 1
    /\ task.our_highest = 0
    /\ chain[2].stakes_hash = chain[1].stakes_hash
    /\ chain[2].stakers.some
    /\ task.stakes = NoStakers
    /\ db.stakes = chain[1].stakers.docs
    /\ db.stakes # {}

(***************************************************************************)
(* The read-path helpers height_info, max_height and blkhash_to_height     *)
(* (lib.rs:103-162), each a closure run by repeat_fallible (lib.rs:21-28), *)
(* on a store at rest whose headvars table may hold a row that this        *)
(* program did not write.                                                  *)
(***************************************************************************)
\* A value of column height that row.get(0)? cannot read as a u64 (a
\* negative integer): the closure returns Err.
BadHeight == -2

\* A value of column blkhash that is text but no hash: row.get(1)? reads
\* it and blkhash.parse().unwrap() panics.
BadHash == -3

\* The stores the helpers are called on: what a pass over the chain wrote,
\* as it is, or with the height or the blkhash of one headvars row
\* replaced by a malformed value.
Malformed(d) ==
    {d}
    \cup {[d EXCEPT !.headvars =
              (@ \ {r}) \cup {[r EXCEPT !.height = BadHeight]}]
            : r \in d.headvars}
    \cup {[d EXCEPT !.headvars =
              (@ \ {r}) \cup {[r EXCEPT !.blkhash = BadHash]}]
            : r \in d.headvars}

\* The arguments a caller passes to each helper.
HelperArgs(op) ==
    CASE op = "height_info"       -> 0..MaxProbe
      [] op = "max_height"        -> {NULL}
      [] op = "blkhash_to_height" ->
            {b.hash : b \in BlockMenu} \cup {99}  \* 99: the hash of no block

\* The rows the helper's statement selects.
HelperRows(op, arg, d) ==
    CASE op = "height_info"       -> {r \in d.headvars : r.height = arg}
      [] op = "blkhash_to_height" -> {r \in d.headvars : r.blkhash = arg}
      [] op = "max_height"        -> {}

\* "select coalesce(max(height), 0) from headvars" as SQLite computes it.
SqlMaxHeight(d) ==
    IF d.headvars = {} THEN 0
    ELSE CHOOSE m \in Heights(d) : \A h \in Heights(d) : h <= m

\* No call of a helper yet.
NoHelperCall ==
    [op |-> "none", arg |-> NULL, status |-> "none", met |-> "none",
     attempts |-> 0, result |-> NULL]

\* A caller enters a helper: repeat_fallible starts its loop.
HelperCall ==
    /\ rd.status # "running"
    /\ \E op \in {"height_info", "max_height", "blkhash_to_height"} :
       \E arg \in HelperArgs(op) :
          rd' = [NoHelperCall EXCEPT !.op = op, !.arg = arg,
                                     !.status = "running"]
    /\ UNCHANGED <<chain, stable, db, txn, task, spend_writes, db_before,
                   balVars, hostVars>>

\* What one run of the closure ends with, the store not being busy.
\* met: what the statement met; status: "ok" for Ok(val), "running" for
\* Err (repeat_fallible logs it and runs the closure again), "panic".
ClosureOutcomes(op, arg, d) ==
    IF op = "max_height"
    THEN IF SqlMaxHeight(d) < 0
         THEN {[met |-> "decode_err", status |-> "running", result |-> NULL]}
         ELSE {[met |-> "row", status |-> "ok", result |-> SqlMaxHeight(d)]}
    ELSE IF HelperRows(op, arg, d) = {}
    THEN {[met |-> "no_row", status |-> "ok", result |-> NULL]}
    ELSE {IF r.height < 0
          THEN [met |-> "decode_err", status |-> "running", result |-> NULL]
          ELSE IF op = "height_info" /\ r.blkhash = BadHash
          THEN [met |-> "decode_err", status |-> "panic", result |-> NULL]
          ELSE [met |-> "row", status |-> "ok", result |-> r.height]
            : r \in HelperRows(op, arg, d)}

\* One iteration of the loop of repeat_fallible: the closure takes a
\* connection and runs its statement; the store is busy or locked and the
\* closure returns Err, or the statement runs.  The count of attempts
\* stops at 2: made once, or made again.
HelperAttempt ==
    /\ rd.status = "running"
    /\ LET n == IF rd.attempts < 2 THEN rd.attempts + 1 ELSE 2
       IN  \/ rd' = [rd EXCEPT !.met = "busy", !.attempts = n]
           \/ \E o \in ClosureOutcomes(rd.op, rd.arg, db) :
                 rd' = [rd EXCEPT !.met = o.met, !.status = o.status,
                                  !.result = o.result, !.attempts = n]
    /\ UNCHANGED <<chain, stable, db, txn, task, spend_writes, db_before,
                   balVars, hostVars>>

InitHelper ==
    /\ chain \in Chains
    /\ stable = TRUE
    /\ db \in Malformed(PassFrom(EmptyDb, chain, 0, NULL))
    /\ txn = NoTxn
    /\ task = IdleTask("sleep", "ok")
    /\ spend_writes = [k \in {} |-> 0]
    /\ db_before = EmptyDb
    /\ rd = NoHelperCall
    /\ tracker = [query |-> NewQuery, cache |-> NoCache]
    /\ bal = NoCall
    /\ pool = PoolOpen
    /\ mutex = "free"
    /\ callers = [c \in Callers |-> NotCalling]
    /\ handle = LiveHandle
    /\ calls = << >>

SpecHelper ==
    /\ InitHelper
    /\ [][
          \/ HelperCall
          \/ HelperAttempt
         ]_vars

\* C25 as stated: a helper runs its store query again after every
\* transient store error and returns the result of the first attempt that
\* succeeds; an attempt that finds no row returns None at once; an attempt
\* that cannot decode the stored row is fatal and is not followed by
\* another attempt.
C25_RetryOnlyTransient ==
    [][(rd.status = "running" /\ rd' # rd) =>
          /\ rd'.met = "busy" => rd'.status = "running"
          /\ rd'.met = "no_row" =>
                (rd'.status = "ok" /\ rd'.result = NULL)
          /\ rd'.met = "row" =>
                /\ rd'.status = "ok"
                /\ \/ rd.op = "max_height" /\ rd'.result = SqlMaxHeight(db)
                   \/ \E r \in HelperRows(rd.op, rd.arg, db) :
                         rd'.result = r.height
          /\ rd'.met = "decode_err" => rd'.status = "panic"]_vars

\* C25 witness: blkhash_to_height was called with the hash of a row whose
\* height column is malformed; its statement met the row more than once
\* and the call is still inside repeat_fallible.
C25_Witness ==
    /\ rd.op = "blkhash_to_height"
    /\ \E r \in db.headvars : r.blkhash = rd.arg /\ r.height = BadHeight
    /\ rd.met = "decode_err"
    /\ rd.attempts = 2
    /\ rd.status = "running"

====
